---- MODULE Spec2Model ----
(***************************************************************************)
(* Verification model of the knowledge_graph repository: the chunk        *)
(* segmenter (document_parser.py), the prompt template (chat.py), the     *)
(* code-fence repair (pipeline.py, multimodal_processing.py) and the      *)
(* graph reconciler (neo4j_lightrag_storage.py, pipeline.py).             *)
(*                                                                         *)
(* Python strings are sequences of one-character strings.                 *)
(***************************************************************************)
EXTENDS Integers, Sequences, FiniteSets, TLC

VARIABLES
    \* ---- code-fence repair (pipeline.py clean_code_fence)
    payload,      \* the inner content the model was asked to produce
    fenceTags,    \* the fence lines wrapped around it, innermost first
    raw,          \* the model output handed to clean_code_fence
    cleaned,      \* clean_code_fence(raw)
    cleaned2,     \* clean_code_fence(cleaned)
    cpc,          \* "input" | "cleaned" | "twice"
    \* ---- prompt template (chat.py PromptTemplate)
    messages,     \* self.messages: the template's items
    kwargs,       \* the keyword arguments of format, in call order
    rendered,     \* the list format returns
    fpc,          \* "ready" | "done" | "raised"
    \* ---- chunk segmenter (document_parser.py DocumentParser.parse_pdf)
    doc,          \* the PDF: per page, its paragraphs ("para" or "blank")
    convertOk,    \* whether convert_from_path returns the page images
    chunks,       \* the chunks list
    pageIdx,      \* page_num of the text loop
    imgIdx,       \* page_num of the image loop
    dpc,          \* "text" | "convert" | "images" | "done"
    \* ---- graph store (neo4j_lightrag_storage.py Neo4jLightRAG)
    nodes,        \* the nodes: [name, label]
    props,        \* per node, its properties besides name: a set of <<key, value>>
    edges,        \* the relationships: [src, rel, tgt]
    last,         \* the last store method a caller invoked, with its arguments
    calls,        \* how many operations callers have started
    \* ---- graph reconciler (load_lightrag_data, create_multimodal_graph)
    rpc,          \* where the running reconciliation stands
    cur,          \* its arguments and loop counters
    ops,          \* the store methods it has invoked so far, in order
    archive,      \* the names of the archive files save_extraction_results wrote
    \* ---- pipeline orchestrator (pipeline.py process_pdf_document)
    stream,       \* the chunks PDFParser.parse_pdf yields for the document
    pidx,         \* how many of them the for loop has taken
    chunk_counter,\* chunk_counter
    plog,         \* per chunk taken: its number in the stream, identifier, outcome
    ppc,          \* "off" | "loop" | "text" | "complete" | "aborted" | "parser_raised"
    \* ---- context window builder (get_surrounding_context)
    ctxChunks,    \* the chunk sequence; Python index k is position k + 1
    ctxIndex,     \* the Python index of the target chunk
    ctxDelta,     \* the window half-width
    ctxOut,       \* the returned string
    xpc,          \* "ready" | "done"
    \* ---- PDF parser generator (parser.py PDFParser.parse_pdf)
    parseDoc,     \* the document: per page its text blocks and image count
    parsed,       \* the chunks the generator has yielded so far
    gpc,          \* "off" | "open" | "closed" | "raised"
    \* ---- extraction adapter (multimodal_processing.py, chat.py)
    acall,        \* which adapter method is called
    afails,       \* TRUE when the call to the generative model raises
    acontent,     \* the content the model returns when it does not
    aout,         \* what the method did: returned a value, or raised
    apc,          \* "off" | "ready" | "done"
    \* ---- two concurrent reconciliations (load_lightrag_data, Step 1)
    raceList,     \* per client: the entity list it loads
    raceI,        \* per client: the index of its next entity
    raceSeen,     \* per client: what entity_exists returned for that entity
    racePc,       \* per client: "off" | "check" | "decide" | "done"
    \* ---- command-line entry point (pipeline.py main)
    margv,        \* sys.argv[1:]: empty, or the one path given
    mexists,      \* what os.path.exists(file_path) answers
    mfile,        \* file_path
    mroute,       \* the branch main took
    mexit,        \* the exit status of the process
    mpc,          \* "off" | "start" | "resolved" | "done"
    \* ---- store contents when the current chunk began (pipeline.py process_chunk / create_multimodal_graph)
    storeBefore   \* nodes, props and edges at the start of the chunk being processed

fenceVars == <<payload, fenceTags, raw, cleaned, cleaned2, cpc>>
formatVars == <<messages, kwargs, rendered, fpc>>

docVars == <<doc, convertOk, chunks, pageIdx, imgIdx, dpc>>

storeVars == <<nodes, props, edges, last, calls>>
reconVars == <<rpc, cur, ops, archive>>
pipeVars == <<stream, pidx, chunk_counter, plog, ppc>>
ctxVars == <<ctxChunks, ctxIndex, ctxDelta, ctxOut, xpc>>
parseVars == <<parseDoc, parsed, gpc>>
adapterVars == <<acall, afails, acontent, aout, apc>>
raceVars == <<raceList, raceI, raceSeen, racePc>>
mainVars == <<margv, mexists, mfile, mroute, mexit, mpc>>
atomVars == <<storeBefore>>

vars == <<fenceVars, formatVars, docVars, storeVars, reconVars, pipeVars, ctxVars, parseVars, adapterVars, raceVars, mainVars, atomVars>>

-----------------------------------------------------------------------------
(* Bounds *)

\* longest payload string drawn for the string functions
MaxStrLen == 4
\* deepest nesting of code fences around a payload
MaxWrap == 1
\* longest template content drawn for PromptTemplate.format
MaxTplLen == 4
\* most pages of a document
MaxPages == 3
\* most paragraphs (blank ones included) of a page
MaxParas == 2
\* most direct calls of store methods in one run
MaxCalls == 4
\* most reconciliations (text chunks and image chunks) in one run
MaxRecon == 2
\* most entries of an extracted entity or relationship list
MaxList == 2
\* most pages of a document handed to process_pdf_document
MaxPipePages == 1
\* most text blocks of one of its pages
MaxBlocks == 2
\* most chunks of a sequence handed to get_surrounding_context
MaxCtxLen == 7
\* largest window half-width delta
MaxDelta == 2
\* most pages of a document handed to PDFParser.parse_pdf alone
MaxParsePages == 2
\* longest body of a model response handed back to the extraction adapter
MaxRespLen == 2

-----------------------------------------------------------------------------
(* Python str primitives *)

\* the backtick character
BT == "BACKTICK"
NL == "\n"
CR == "\r"
SP == " "

\* the characters payloads are drawn from
Alphabet == {BT, NL, CR, SP, "a"}

\* str.isspace for one character
IsSpace(c) == c \in {SP, NL, CR, "\t"}

RECURSIVE lstrip(_)
lstrip(s) ==
    IF s = <<>> THEN <<>>
    ELSE IF IsSpace(Head(s)) THEN lstrip(Tail(s)) ELSE s

RECURSIVE rstrip(_)
rstrip(s) ==
    IF s = <<>> THEN <<>>
    ELSE IF IsSpace(s[Len(s)]) THEN rstrip(SubSeq(s, 1, Len(s) - 1)) ELSE s

\* str.strip() with no argument
strip(s) == rstrip(lstrip(s))

\* str.startswith(p)
startswith(s, p) == Len(s) >= Len(p) /\ SubSeq(s, 1, Len(p)) = p

\* str.splitlines(): breaks at \n, \r and \r\n, terminators dropped, no
\* empty last line after a final terminator
RECURSIVE splitFrom(_, _, _)
splitFrom(s, i, line) ==
    IF i > Len(s) THEN (IF line = <<>> THEN <<>> ELSE <<line>>)
    ELSE IF s[i] = NL THEN <<line>> \o splitFrom(s, i + 1, <<>>)
    ELSE IF s[i] = CR THEN
        <<line>> \o splitFrom(s, (IF i < Len(s) /\ s[i + 1] = NL THEN i + 2 ELSE i + 1), <<>>)
    ELSE splitFrom(s, i + 1, Append(line, s[i]))

splitlines(s) == splitFrom(s, 1, <<>>)

\* sep.join(lines)
RECURSIVE join(_, _)
join(sep, lines) ==
    IF lines = <<>> THEN <<>>
    ELSE IF Len(lines) = 1 THEN lines[1]
    ELSE lines[1] \o sep \o join(sep, Tail(lines))

\* all strings over alphabet A of length at most n
StrsUpTo(A, n) == UNION {[1..k -> A] : k \in 0..n}

-----------------------------------------------------------------------------
(* clean_code_fence *)

Fence == <<BT, BT, BT>>
JsonTag == <<"j", "s", "o", "n">>

\* lines[1:] then the optional drop of a closing fence line
DropFenceLines(lines) ==
    LET rest == Tail(lines)
    IN  IF rest # <<>> /\ strip(rest[Len(rest)]) = Fence
        THEN SubSeq(rest, 1, Len(rest) - 1)
        ELSE rest

\* mutant: the result of the fenced branch is not stripped
clean_code_fence_nostrip(s0) ==
    LET s == strip(s0)
    IN  IF startswith(s, Fence)
        THEN join(<<NL>>, DropFenceLines(splitlines(s)))
        ELSE s

\* mutant: the closing fence line is always kept
clean_code_fence_keeplast(s0) ==
    LET s == strip(s0)
    IN  IF startswith(s, Fence)
        THEN strip(join(<<NL>>, Tail(splitlines(s))))
        ELSE s

\* mutant: any leading backtick counts as a fence
clean_code_fence_anytick(s0) ==
    LET s == strip(s0)
    IN  IF startswith(s, <<BT>>)
        THEN strip(join(<<NL>>, DropFenceLines(splitlines(s))))
        ELSE s

clean_code_fence(s0) ==
    LET s == strip(s0)
    IN  IF startswith(s, Fence)
        THEN strip(join(<<NL>>, DropFenceLines(splitlines(s))))
        ELSE s

\* the model output: the payload between a leading fence line and a closing one
WrapOnce(p, tag) == Fence \o tag \o <<NL>> \o p \o <<NL>> \o Fence

RECURSIVE WrapAll(_, _)
WrapAll(p, tags) ==
    IF tags = <<>> THEN p ELSE WrapAll(WrapOnce(p, Head(tags)), Tail(tags))

FenceTagSeqs == UNION {[1..k -> {<<>>, JsonTag}] : k \in 0..MaxWrap}

FenceIdle ==
    /\ payload = <<>>
    /\ fenceTags = <<>>
    /\ raw = <<>>
    /\ cleaned = <<>>
    /\ cleaned2 = <<>>
    /\ cpc = "idle"

FenceInit ==
    /\ payload \in StrsUpTo(Alphabet, MaxStrLen)
    /\ fenceTags \in FenceTagSeqs
    /\ raw = WrapAll(payload, fenceTags)
    /\ cleaned = <<>>
    /\ cleaned2 = <<>>
    /\ cpc = "input"

\* triples_json = self.clean_code_fence(triples)
Clean ==
    /\ cpc = "input"
    /\ cleaned' = clean_code_fence(raw)
    /\ cpc' = "cleaned"
    /\ UNCHANGED <<payload, fenceTags, raw, cleaned2>>

\* the function applied to its own output
CleanAgain ==
    /\ cpc = "cleaned"
    /\ cleaned2' = clean_code_fence(cleaned)
    /\ cpc' = "twice"
    /\ UNCHANGED <<payload, fenceTags, raw, cleaned>>

-----------------------------------------------------------------------------
(* PromptTemplate.format *)

LB == "{"
RB == "}"

\* str.replace(old, new): the non-overlapping occurrences, left to right
replaceFrom(s, i, old, new) ==
    LET from[k \in i..(Len(s) + 1)] ==
            IF k > Len(s) THEN <<>>
            ELSE IF k + Len(old) - 1 <= Len(s) /\ SubSeq(s, k, k + Len(old) - 1) = old
                 THEN new \o from[k + Len(old)]
                 ELSE <<s[k]>> \o from[k + 1]
    IN  from[i]

replace(s, old, new) == replaceFrom(s, 1, old, new)

\* "{" + k + "}"
Placeholder(k) == <<LB>> \o k \o <<RB>>

\* _safe_format: one str.replace per keyword argument, in mapping order,
\* each applied to the output of the one before
RECURSIVE safe_format(_, _)
safe_format(content, mapping) ==
    IF mapping = <<>> THEN content
    ELSE safe_format(replace(content, Placeholder(mapping[1].k), mapping[1].v),
                     Tail(mapping))

\* template items: a (role, content) pair, a nested list of items, or
\* anything else
Msg(role, content) == [kind |-> "msg", role |-> role, content |-> content]
Block(items) == [kind |-> "block", items |-> items]
BadItem == [kind |-> "bad"]

\* whether _expand reaches its raise ValueError on this item
RECURSIVE ExpandRaises(_)
ExpandRaises(item) ==
    IF item.kind = "block"
    THEN \E i \in 1..Len(item.items) : ExpandRaises(item.items[i])
    ELSE item.kind # "msg"

\* _expand: a nested block is flattened, a pair is rendered
RECURSIVE expand(_, _)
RECURSIVE expandAll(_, _)
expand(item, mapping) ==
    IF item.kind = "block"
    THEN expandAll(item.items, mapping)
    ELSE <<[role |-> item.role, content |-> safe_format(item.content, mapping)]>>

expandAll(items, mapping) ==
    IF items = <<>> THEN <<>>
    ELSE expand(Head(items), mapping) \o expandAll(Tail(items), mapping)

\* the keyword names of the templates (question, text)
question == <<"q">>
text == <<"t">>

\* characters of template contents: braces, the key letters and one other
TplAlphabet == {LB, RB, "q", "t", "e"}

\* values a caller supplies: plain text, text holding a placeholder, a brace
Values == {<<"X">>, Placeholder(text), <<LB>>}

KwargsSet ==
    {<<>>}
    \cup {<<[k |-> key, v |-> v]>> : key \in {question, text}, v \in Values}
    \cup {<<[k |-> question, v |-> v1], [k |-> text, v |-> v2]>> : v1 \in Values, v2 \in Values}
    \cup {<<[k |-> text, v |-> v2], [k |-> question, v |-> v1]>> : v1 \in Values, v2 \in Values}

\* the template shapes of the repository: system + user slot (pipeline.py),
\* system + few-shot block + user slot (chat.py), and an ill-formed item
Templates(c) ==
    { <<Msg("system", c), Msg("user", Placeholder(text))>>,
      <<Msg("system", c),
        Block(<<Msg("user", <<"X">>), Msg("assistant", <<LB, "e", RB>>)>>),
        Msg("user", Placeholder(question) \o Placeholder(text))>>,
      <<Msg("system", c), BadItem>> }

FormatIdle ==
    /\ messages = <<>>
    /\ kwargs = <<>>
    /\ rendered = <<>>
    /\ fpc = "idle"

FormatInit ==
    /\ \E c \in StrsUpTo(TplAlphabet, MaxTplLen) : messages \in Templates(c)
    /\ kwargs \in KwargsSet
    /\ rendered = <<>>
    /\ fpc = "ready"

\* PromptTemplate.format(**kwargs) returning the rendered list
Format ==
    /\ fpc = "ready"
    /\ \A i \in 1..Len(messages) : ~ExpandRaises(messages[i])
    /\ rendered' = expandAll(messages, kwargs)
    /\ fpc' = "done"
    /\ UNCHANGED <<messages, kwargs>>

\* PromptTemplate.format(**kwargs) leaving through raise ValueError
FormatRaises ==
    /\ fpc = "ready"
    /\ \E i \in 1..Len(messages) : ExpandRaises(messages[i])
    /\ fpc' = "raised"
    /\ UNCHANGED <<messages, kwargs, rendered>>

-----------------------------------------------------------------------------
(* DocumentParser.parse_pdf *)

\* list.insert(pos, c) for 0 <= pos <= len(cs)
InsertAt(cs, pos, c) ==
    SubSeq(cs, 1, pos) \o <<c>> \o SubSeq(cs, pos + 1, Len(cs))

\* the text chunks of one page: one per paragraph with para.strip() true,
\* numbered from position on
RECURSIVE PageChunks(_, _, _)
PageChunks(paras, page_num, position) ==
    IF paras = <<>> THEN <<>>
    ELSE IF Head(paras) = "para"
         THEN <<[type |-> "text", content |-> <<page_num, Len(paras)>>,
                 position |-> position, page |-> page_num]>>
              \o PageChunks(Tail(paras), page_num, position + 1)
         ELSE PageChunks(Tail(paras), page_num, position)

\* _estimate_image_position: the middle one of the indices (0-based) of this
\* page's chunks, or len(chunks) when the page has none
estimate_image_position(cs, page_num) ==
    LET page_chunks == {i \in 0..(Len(cs) - 1) : cs[i + 1].page = page_num}
        n == Cardinality(page_chunks)
    IN  IF page_chunks # {}
        THEN CHOOSE i \in page_chunks :
                Cardinality({j \in page_chunks : j < i}) = n \div 2
        ELSE Len(cs)

\* mutant: the loop starts one index too late
RenumberAfter_late(cs, insert_pos) ==
    [i \in 1..Len(cs) |->
        IF i - 1 >= insert_pos + 2 THEN [cs[i] EXCEPT !.position = i - 1] ELSE cs[i]]

\* for i in range(insert_pos + 1, len(chunks)): chunks[i]['position'] = i
RenumberAfter(cs, insert_pos) ==
    [i \in 1..Len(cs) |->
        IF i - 1 >= insert_pos + 1 THEN [cs[i] EXCEPT !.position = i - 1] ELSE cs[i]]

ImageChunk(insert_pos, page_num) ==
    [type |-> "image", content |-> <<"image", page_num>>,
     position |-> insert_pos, page |-> page_num]

Pages == StrsUpTo({"para", "blank"}, MaxParas)

DocIdle ==
    /\ doc = <<>>
    /\ convertOk = FALSE
    /\ chunks = <<>>
    /\ pageIdx = 0
    /\ imgIdx = 0
    /\ dpc = "idle"

DocInit ==
    /\ doc \in UNION {[1..n -> Pages] : n \in 0..MaxPages}
    /\ convertOk \in BOOLEAN
    /\ chunks = <<>>
    /\ pageIdx = 0
    /\ imgIdx = 0
    /\ dpc = "text"

\* one iteration of "for page_num, page in enumerate(pdf_reader.pages)"
ExtractPage ==
    /\ dpc = "text"
    /\ pageIdx < Len(doc)
    /\ chunks' = chunks \o PageChunks(doc[pageIdx + 1], pageIdx, Len(chunks))
    /\ pageIdx' = pageIdx + 1
    /\ UNCHANGED <<doc, convertOk, imgIdx, dpc>>

\* the text loop ends
TextDone ==
    /\ dpc = "text"
    /\ pageIdx = Len(doc)
    /\ dpc' = "convert"
    /\ UNCHANGED <<doc, convertOk, chunks, pageIdx, imgIdx>>

\* images = convert_from_path(pdf_path, dpi=150): one image per page
ConvertImages ==
    /\ dpc = "convert"
    /\ convertOk
    /\ dpc' = "images"
    /\ UNCHANGED <<doc, convertOk, chunks, pageIdx, imgIdx>>

\* convert_from_path raises: the except branch prints a warning
ConvertFails ==
    /\ dpc = "convert"
    /\ ~convertOk
    /\ dpc' = "done"
    /\ UNCHANGED <<doc, convertOk, chunks, pageIdx, imgIdx>>

\* one iteration of "for page_num, image in enumerate(images)"
InsertImage ==
    /\ dpc = "images"
    /\ imgIdx < Len(doc)
    /\ LET insert_pos == estimate_image_position(chunks, imgIdx)
       IN  chunks' = RenumberAfter(InsertAt(chunks, insert_pos, ImageChunk(insert_pos, imgIdx)),
                                   insert_pos)
    /\ imgIdx' = imgIdx + 1
    /\ UNCHANGED <<doc, convertOk, pageIdx, dpc>>

\* return chunks
ReturnChunks ==
    /\ dpc = "images"
    /\ imgIdx = Len(doc)
    /\ dpc' = "done"
    /\ UNCHANGED <<doc, convertOk, chunks, pageIdx, imgIdx>>

-----------------------------------------------------------------------------
(* Neo4jLightRAG: the graph store *)

\* entity names and types as the extraction step and the callers give them
MIT == <<"M", "I", "T">>
Ghost == <<"G", "h", "o", "s", "t">>
Organization == <<"O", "r", "g">>
University == <<"U", "n", "i">>

Node(n, l) == [name |-> n, label |-> l]

\* the store as one value
Store == [nodes |-> nodes, props |-> props, edges |-> edges]

\* MATCH (n {name: $name}): every node with that name, whatever its label
NamedNodes(st, n) == {x \in st.nodes : x.name = n}

\* SET e += $properties: the given keys are written, the others kept
MergeProps(old, new) == {kv \in old : \A kv2 \in new : kv2[1] # kv[1]} \cup new

\* create_entity: MERGE (e:<entity_type> {name: $name}) SET e += $properties.
\* MERGE matches on the label and the name together.
create_entity(st, entity_name, entity_type, properties) ==
    LET matched == {x \in st.nodes : x.name = entity_name /\ x.label = entity_type}
        e == Node(entity_name, entity_type)
    IN  IF matched # {}
        THEN [st EXCEPT !.props =
                 [x \in st.nodes |-> IF x \in matched
                                     THEN MergeProps(st.props[x], properties)
                                     ELSE st.props[x]]]
        ELSE [nodes |-> st.nodes \cup {e},
              props |-> [x \in st.nodes \cup {e} |->
                            IF x = e THEN properties ELSE st.props[x]],
              edges |-> st.edges]

\* the rows of MATCH (s {name: $source}) MATCH (t {name: $target})
EndpointPairs(st, source, target) ==
    NamedNodes(st, source) \X NamedNodes(st, target)

\* mutant: MERGE over the whole pattern, which creates missing endpoints
create_relationship_mergepattern(st, source, target, relation_type) ==
    LET s == IF NamedNodes(st, source) = {} THEN {Node(source, <<>>)}
             ELSE NamedNodes(st, source)
        t == IF NamedNodes(st, target) = {} THEN {Node(target, <<>>)}
             ELSE NamedNodes(st, target)
        ns == st.nodes \cup s \cup t
    IN  [nodes |-> ns,
         props |-> [x \in ns |-> IF x \in st.nodes THEN st.props[x] ELSE {}],
         edges |-> st.edges \cup
                   {[src |-> pr[1], rel |-> relation_type, tgt |-> pr[2]] : pr \in s \X t}]

\* create_relationship: MATCH both endpoints by name, then
\* MERGE (s)-[r:<relation_type>]->(t) for every matched pair
create_relationship(st, source, target, relation_type) ==
    [st EXCEPT !.edges = st.edges \cup
        {[src |-> pr[1], rel |-> relation_type, tgt |-> pr[2]] :
            pr \in EndpointPairs(st, source, target)}]

\* what create_relationship prints: result.single() is None without a row
relationship_message(st, source, target) ==
    IF EndpointPairs(st, source, target) # {} THEN "created" ELSE "could_not_create"

\* a variant that merges the node instead of matching it
add_entity_index_merge(st, entity_name, summary) ==
    IF NamedNodes(st, entity_name) = {}
    THEN create_entity(st, entity_name, Organization, {<<"index_summary", summary>>})
    ELSE [st EXCEPT !.props =
             [x \in st.nodes |-> IF x.name = entity_name
                                 THEN MergeProps(st.props[x], {<<"index_summary", summary>>})
                                 ELSE st.props[x]]]

\* add_entity_index: MATCH (e {name: $name}) SET e.index_summary = $summary
add_entity_index(st, entity_name, summary) ==
    [st EXCEPT !.props =
        [x \in st.nodes |-> IF x.name = entity_name
                            THEN MergeProps(st.props[x], {<<"index_summary", summary>>})
                            ELSE st.props[x]]]

\* entity_exists: MATCH (n {name: $name}) RETURN count(n) > 0
entity_exists(st, entity_name) == NamedNodes(st, entity_name) # {}

\* arguments of the direct calls
CallNames == {MIT, Ghost}
CallTypes == {Organization, University}
CallProps == {{}, {<<"founded", "1861">>}}
CallRelations == {<<"W", "O", "R", "K", "S", "_", "A", "T">>}
CallSummaries == {<<"s", "1">>}

NoCall == [op |-> "none", args |-> <<>>, fresh |-> FALSE, msg |-> "none"]

StoreIdle ==
    /\ nodes = {}
    /\ props = <<>>
    /\ edges = {}
    /\ last = NoCall
    /\ calls = 0

\* an empty database (after clear_database)
StoreInit ==
    /\ nodes = {}
    /\ props = <<>>
    /\ edges = {}
    /\ last = NoCall
    /\ calls = 0

SetStore(st) ==
    /\ nodes' = st.nodes
    /\ props' = st.props
    /\ edges' = st.edges

\* neo4j.create_entity(entity_name, entity_type, properties)
CallCreateEntity ==
    /\ calls < MaxCalls
    /\ \E n \in CallNames, t \in CallTypes, p \in CallProps :
         /\ SetStore(create_entity(Store, n, t, p))
         /\ last' = [op |-> "create_entity", args |-> <<n, t, p>>,
                     fresh |-> ~entity_exists(Store, n), msg |-> "created"]
    /\ calls' = calls + 1

\* neo4j.create_relationship(source, target, relation_type)
CallCreateRelationship ==
    /\ calls < MaxCalls
    /\ \E s \in CallNames, t \in CallNames, r \in CallRelations :
         /\ SetStore(create_relationship(Store, s, t, r))
         /\ last' = [op |-> "create_relationship", args |-> <<s, t, r>>,
                     fresh |-> FALSE, msg |-> relationship_message(Store, s, t)]
    /\ calls' = calls + 1

\* neo4j.add_entity_index(entity_name, summary)
CallAddEntityIndex ==
    /\ calls < MaxCalls
    /\ \E n \in CallNames, v \in CallSummaries :
         /\ SetStore(add_entity_index(Store, n, v))
         /\ last' = [op |-> "add_entity_index", args |-> <<n, v>>,
                     fresh |-> ~entity_exists(Store, n), msg |-> "added"]
    /\ calls' = calls + 1

\* neo4j.clear_database(): MATCH (n) DETACH DELETE n
ClearDatabase ==
    /\ calls < MaxCalls
    /\ nodes # {}
    /\ nodes' = {}
    /\ props' = <<>>
    /\ edges' = {}
    /\ last' = [op |-> "clear_database", args |-> <<>>, fresh |-> FALSE, msg |-> "cleared"]
    /\ calls' = calls + 1

-----------------------------------------------------------------------------
(* load_lightrag_data and create_multimodal_graph *)

\* sanitize_label: label.replace(' ', '_').replace('-', '_')
sanitize_label(label) ==
    replace(replace(label, <<SP>>, <<"_">>), <<"-">>, <<"_">>)

LowerLetters == <<"a", "b", "c", "d", "e", "f", "g", "h", "i", "j", "k", "l", "m",
                  "n", "o", "p", "q", "r", "s", "t", "u", "v", "w", "x", "y", "z">>
UpperLetters == <<"A", "B", "C", "D", "E", "F", "G", "H", "I", "J", "K", "L", "M",
                  "N", "O", "P", "Q", "R", "S", "T", "U", "V", "W", "X", "Y", "Z">>

\* str.upper()
upper(s) ==
    [i \in 1..Len(s) |->
        IF \E j \in 1..Len(LowerLetters) : LowerLetters[j] = s[i]
        THEN UpperLetters[CHOOSE j \in 1..Len(LowerLetters) : LowerLetters[j] = s[i]]
        ELSE s[i]]

\* what the extraction step hands over: names with blanks, lower-case relations
DrChen == <<"D", "r", " ", "C">>
Person == <<"P", "e", "r">>
works_at == <<"w", "o", "r", "k", "s", "_", "a", "t">>
funds == <<"f", "u", "n", "d", "s">>

RawEntities ==
    { [name |-> MIT, type |-> Organization],
      [name |-> MIT, type |-> University],
      [name |-> DrChen, type |-> Person] }

RawRelationships ==
    { [source |-> DrChen, relation |-> works_at, target |-> MIT],
      [source |-> MIT, relation |-> funds, target |-> Ghost] }

RawIndex == { [key |-> DrChen, value |-> <<"s", "1">>] }

\* the lists of at most n different entries of S, in every order
SeqsUpTo(S, n) ==
    {q \in UNION {[1..k -> S] : k \in 0..n} :
        \A i \in 1..Len(q) : \A j \in 1..Len(q) : i # j => q[i] # q[j]}

\* the order of the three loops of load_lightrag_data
\* mutant: relationships are created before the entities
LoadPhases_relsfirst == <<"relationships", "entities", "index">>

LoadPhases == <<"entities", "relationships", "index">>

\* the list the current loop of load_lightrag_data runs over
PhaseList(c) ==
    CASE LoadPhases[c.phase] = "entities" -> c.entities_json
      [] LoadPhases[c.phase] = "relationships" -> c.relationships_json
      [] LoadPhases[c.phase] = "index" -> c.entity_index_json

Idle == rpc \in {"idle", "load_done", "chunk_raised", "mm_done", "mm_raised"}

ReconIdle ==
    /\ rpc = "off"
    /\ cur = <<>>
    /\ ops = <<>>
    /\ archive = {}

ReconInit ==
    /\ rpc = "idle"
    /\ cur = <<>>
    /\ ops = <<>>
    /\ archive = {}

\* the decimal digits of str(n) for the chunk numbers of a run
Digits == <<"1", "2", "3", "4", "5", "6", "7", "8", "9">>

\* str(n) for n >= 1
RECURSIVE IntStr(_)
IntStr(n) ==
    LET d == n % 10
        c == IF d = 0 THEN "0" ELSE Digits[d]
    IN  IF n < 10 THEN <<c>> ELSE IntStr(n \div 10) \o <<c>>

\* Step 1 of load_lightrag_data for one entity: create it unless
\* entity_exists says a node already has its (sanitized) name
load_entity(st, entity) ==
    IF entity_exists(st, sanitize_label(entity.name))
    THEN st
    ELSE create_entity(st, sanitize_label(entity.name), sanitize_label(entity.type), {})

\* Step 2 for one relationship
load_relationship(st, rel) ==
    create_relationship(st, sanitize_label(rel.source), sanitize_label(rel.target),
                        upper(rel.relation))

\* Step 3 for one entity index entry
load_index(st, idx) ==
    add_entity_index(st, sanitize_label(idx.key), idx.value)

\* the chunk_id arguments of direct calls of create_multimodal_graph
ChunkIds == {1, 2}

\* the chunk_id of a direct call of process_chunk: main calls
\* builder.process_chunk(text1, chunk_id=1)
TextChunkIds == {1}

\* f"chunk_{chunk_id}"
ChunkName(chunk_id) == <<"c", "h", "u", "n", "k", "_">> \o chunk_id

\* f"knowledge_graph_data_{name}.json"
ArchiveFile(name) ==
    <<"k", "n", "o", "w", "l", "e", "d", "g", "e", "_", "g", "r", "a", "p", "h", "_",
      "d", "a", "t", "a", "_">> \o name \o <<".", "j", "s", "o", "n">>

\* save_extraction_results: json.loads raises when either cleaned output is
\* not well-formed JSON; nothing catches it in save_extraction_results or
\* in process_chunk
save_extraction_results_raises(triples_ok, key_values_ok) ==
    ~triples_ok \/ ~key_values_ok

\* process_chunk, both outputs parse: the archive file is written and
\* load_lightrag_data(self.neo4j, entities, relationships, entity_index) begins
LoadStart ==
    /\ Idle
    /\ calls < MaxRecon
    /\ ~save_extraction_results_raises(TRUE, TRUE)
    /\ \E chunk_id \in TextChunkIds,
          ents \in SeqsUpTo(RawEntities, MaxList),
          rels \in SeqsUpTo(RawRelationships, MaxList),
          idx \in SeqsUpTo(RawIndex, 1) :
         /\ cur' = [entities_json |-> ents, relationships_json |-> rels,
                    entity_index_json |-> idx, phase |-> 1, i |-> 1]
         /\ archive' = archive \cup {ArchiveFile(ChunkName(IntStr(chunk_id)))}
    /\ rpc' = "load"
    /\ ops' = <<>>
    /\ calls' = calls + 1
    /\ UNCHANGED <<nodes, props, edges, last>>

\* process_chunk, an output that is still not JSON after clean_code_fence:
\* json.loads raises out of save_extraction_results and out of process_chunk
\* before the archive file is written and before load_lightrag_data is called
ProcessChunkRaises ==
    /\ Idle
    /\ calls < MaxRecon
    /\ \E chunk_id \in TextChunkIds, triples_ok \in BOOLEAN, key_values_ok \in BOOLEAN :
         /\ save_extraction_results_raises(triples_ok, key_values_ok)
         /\ cur' = [chunk_id |-> chunk_id, triples_ok |-> triples_ok,
                    key_values_ok |-> key_values_ok]
    /\ rpc' = "chunk_raised"
    /\ ops' = <<>>
    /\ calls' = calls + 1
    /\ UNCHANGED <<nodes, props, edges, last, archive>>

\* Step 1, one entity: create it unless entity_exists says a node has its name
LoadEntity ==
    /\ rpc = "load"
    /\ LoadPhases[cur.phase] = "entities"
    /\ cur.i <= Len(cur.entities_json)
    /\ LET entity == cur.entities_json[cur.i]
           entity_name == sanitize_label(entity.name)
           entity_type == sanitize_label(entity.type)
       IN  IF entity_exists(Store, entity_name)
           THEN /\ ops' = Append(ops, <<"entity_exists", entity_name>>)
                /\ UNCHANGED <<nodes, props, edges>>
           ELSE /\ ops' = ops \o << <<"entity_exists", entity_name>>,
                                    <<"create_entity", entity_name, entity_type>> >>
                /\ SetStore(load_entity(Store, entity))
    /\ cur' = [cur EXCEPT !.i = cur.i + 1]
    /\ UNCHANGED <<rpc, last, calls>>
    /\ UNCHANGED archive

\* Step 2, one relationship
LoadRelationship ==
    /\ rpc = "load"
    /\ LoadPhases[cur.phase] = "relationships"
    /\ cur.i <= Len(cur.relationships_json)
    /\ LET rel == cur.relationships_json[cur.i]
           source == sanitize_label(rel.source)
           target == sanitize_label(rel.target)
           relation_type == upper(rel.relation)
       IN  /\ ops' = Append(ops, <<"create_relationship", source, target, relation_type>>)
           /\ SetStore(load_relationship(Store, rel))
    /\ cur' = [cur EXCEPT !.i = cur.i + 1]
    /\ UNCHANGED <<rpc, last, calls>>
    /\ UNCHANGED archive

\* Step 3, one entity index summary
LoadIndex ==
    /\ rpc = "load"
    /\ LoadPhases[cur.phase] = "index"
    /\ cur.i <= Len(cur.entity_index_json)
    /\ LET idx == cur.entity_index_json[cur.i]
           entity_name == sanitize_label(idx.key)
       IN  /\ ops' = Append(ops, <<"add_entity_index", entity_name>>)
           /\ SetStore(load_index(Store, idx))
    /\ cur' = [cur EXCEPT !.i = cur.i + 1]
    /\ UNCHANGED <<rpc, last, calls>>
    /\ UNCHANGED archive

\* a loop of load_lightrag_data ends and the next one begins
LoadNextPhase ==
    /\ rpc = "load"
    /\ cur.i > Len(PhaseList(cur))
    /\ cur.phase < Len(LoadPhases)
    /\ cur' = [cur EXCEPT !.phase = cur.phase + 1, !.i = 1]
    /\ UNCHANGED <<rpc, ops, nodes, props, edges, last, calls>>
    /\ UNCHANGED archive

\* load_lightrag_data returns
LoadReturn ==
    /\ rpc = "load"
    /\ cur.i > Len(PhaseList(cur))
    /\ cur.phase = Len(LoadPhases)
    /\ rpc' = "load_done"
    /\ UNCHANGED <<cur, ops, nodes, props, edges, last, calls>>
    /\ UNCHANGED archive

\* f"Image_{chunk_id}"
AnchorName(chunk_id) == <<"I", "m", "a", "g", "e", "_">> \o IntStr(chunk_id)

MultimodalAnchor == <<"M", "u", "l", "t", "i", "m", "o", "d", "a", "l",
                      "A", "n", "c", "h", "o", "r">>
BELONGS_TO == <<"B", "E", "L", "O", "N", "G", "S", "_", "T", "O">>

ImageInfos ==
    { [image_path |-> <<"p", Digits[k]>>, detailed_description |-> <<"d", Digits[k]>>] :
        k \in ChunkIds }

\* the entities the extraction step finds in image descriptions
ImageEntities ==
    { [name |-> MIT, type |-> University],
      [name |-> DrChen, type |-> Person],
      [name |-> AnchorName(1), type |-> Organization] }

\* create_multimodal_graph(image_info, chunk_id): the anchor node is created
MultimodalStart ==
    /\ Idle
    /\ calls < MaxRecon
    /\ \E chunk_id \in ChunkIds, image_info \in ImageInfos :
         LET anchor_name == AnchorName(chunk_id)
             properties == { <<"modality", "image">>,
                             <<"image_path", image_info.image_path>>,
                             <<"detailed_description", image_info.detailed_description>> }
         IN  /\ SetStore(create_entity(Store, anchor_name, MultimodalAnchor, properties))
             /\ cur' = [anchor_name |-> anchor_name, image_info |-> image_info,
                        entities |-> <<>>, i |-> 1]
             /\ ops' = << <<"create_entity", anchor_name, MultimodalAnchor>> >>
    /\ rpc' = "mm_extract"
    /\ calls' = calls + 1
    /\ UNCHANGED last
    /\ UNCHANGED archive

\* the description is extracted, cleaned and parsed into an entity list
MultimodalExtract ==
    /\ rpc = "mm_extract"
    /\ \E ents \in SeqsUpTo(ImageEntities, MaxList) :
         cur' = [cur EXCEPT !.entities = ents]
    /\ rpc' = "mm_entities"
    /\ UNCHANGED <<ops, nodes, props, edges, last, calls>>
    /\ UNCHANGED archive

\* json.loads(triples_clean) or ['entities'] raises: the call ends there
MultimodalExtractRaises ==
    /\ rpc = "mm_extract"
    /\ rpc' = "mm_raised"
    /\ UNCHANGED <<cur, ops, nodes, props, edges, last, calls>>
    /\ UNCHANGED archive

\* one entity of the image: create_entity, then its BELONGS_TO relationship
MultimodalEntity ==
    /\ rpc = "mm_entities"
    /\ cur.i <= Len(cur.entities)
    /\ LET entity == cur.entities[cur.i]
           st1 == create_entity(Store, entity.name, entity.type, {})
       IN  /\ SetStore(create_relationship(st1, entity.name, cur.anchor_name, BELONGS_TO))
           /\ ops' = ops \o << <<"create_entity", entity.name, entity.type>>,
                               <<"create_relationship", entity.name, cur.anchor_name,
                                 BELONGS_TO>> >>
    /\ cur' = [cur EXCEPT !.i = cur.i + 1]
    /\ UNCHANGED <<rpc, last, calls>>
    /\ UNCHANGED archive

\* return anchor_name
MultimodalReturn ==
    /\ rpc = "mm_entities"
    /\ cur.i > Len(cur.entities)
    /\ rpc' = "mm_done"
    /\ UNCHANGED <<cur, ops, nodes, props, edges, last, calls>>
    /\ UNCHANGED archive

-----------------------------------------------------------------------------
(* PDFParser.parse_pdf and process_pdf_document *)

\* block[4] of text block k of page page_num: text, or whitespace only
BlockText(kind, page_num, k) ==
    IF kind = "words"
    THEN <<"T">> \o IntStr(page_num + 1) \o IntStr(k) \o <<SP>>
    ELSE <<SP>>

\* str(image_path.absolute()) for f"page_{page_num + 1}_img_{img_index + 1}.{image_ext}"
ImagePath(page_num, img_index) ==
    <<"p", "a", "g", "e", "_">> \o IntStr(page_num + 1) \o
    <<"_", "i", "m", "g", "_">> \o IntStr(img_index + 1)

\* the documents: per page its text blocks and the number of its images
\* (none or one)
PdfPages ==
    [blocks : StrsUpTo({"words", "blank"}, MaxBlocks), images : 0..1]

PdfDocs == StrsUpTo(PdfPages, MaxPipePages)

\* the loop over the blocks of a page from block k on: the text chunks
\* yielded and last_text_content after them
RECURSIVE YieldBlocks(_, _, _, _)
YieldBlocks(blocks, k, page_num, last_text_content) ==
    IF k > Len(blocks)
    THEN [yielded |-> <<>>, last_text_content |-> last_text_content]
    ELSE LET content == strip(BlockText(blocks[k], page_num, k))
             rest == YieldBlocks(blocks, k + 1, page_num,
                                 IF content # <<>> THEN content ELSE last_text_content)
         IN  IF content # <<>>
             THEN [rest EXCEPT !.yielded =
                      << [type |-> "text", content |-> content,
                          page |-> page_num + 1, context |-> <<>>] >> \o rest.yielded]
             ELSE rest

\* a variant that tags every image with an empty context
YieldImages_nocontext(images, page_num, last_text_content) ==
    [j \in 1..images |->
        [type |-> "image", content |-> ImagePath(page_num, j - 1),
         page |-> page_num + 1, context |-> <<>>]]

\* the loop over the images of a page
YieldImages(images, page_num, last_text_content) ==
    [j \in 1..images |->
        [type |-> "image", content |-> ImagePath(page_num, j - 1),
         page |-> page_num + 1, context |-> last_text_content]]

\* the loop over the pages from page page_num on
RECURSIVE YieldPages(_, _, _)
YieldPages(pdf, page_num, last_text_content) ==
    IF page_num >= Len(pdf)
    THEN <<>>
    ELSE LET page == pdf[page_num + 1]
             tb == YieldBlocks(page.blocks, 1, page_num, last_text_content)
         IN  tb.yielded
             \o YieldImages(page.images, page_num, tb.last_text_content)
             \o YieldPages(pdf, page_num + 1, tb.last_text_content)

\* PDFParser.parse_pdf(pdf_path): the chunks in yield order
parse_pdf(pdf) == YieldPages(pdf, 0, <<>>)

\* the names of the end-to-end scenario, "Dr. Sarah Chen" and
\* "Stanford Medical Center", shortened to their initials
SarahChen == <<"D", "r", ".", SP, "C">>
Stanford == <<"S", SP, "M", SP, "C">>

\* what the two completions of a text chunk parse to
PipeOutputs ==
    { [entities |-> << [name |-> SarahChen, type |-> Person],
                       [name |-> Stanford, type |-> Organization] >>,
       relationships |-> << [source |-> SarahChen, relation |-> works_at,
                             target |-> Stanford] >>,
       entity_index |-> << [key |-> SarahChen, value |-> <<"s", "1">>] >>] }

\* the public methods and helpers class MultimodalProcessor defines
MultimodalProcessorMethods ==
    {"process_image_with_context", "_encode_image", "_build_detail_prompt",
     "_build_entity_prompt", "_call_vlm", "extract_entities_from_description"}

\* chunk_counter += 1
\* mutant: the counter is not advanced
next_chunk_counter_stuck(c) == c

next_chunk_counter(c) == c + 1

\* chunk_id = f"pdf_chunk_{chunk_counter}"
PdfChunkId(c) == <<"p", "d", "f", "_", "c", "h", "u", "n", "k", "_">> \o IntStr(c)

\* where the for loop stands after a chunk: try ... except Exception catches
\* whatever the chunk raised and the loop goes on
\* mutant: an exception leaves the loop
chunk_boundary_uncaught(raised) == IF raised THEN "aborted" ELSE "loop"

chunk_boundary(raised) == "loop"

PipeIdle ==
    /\ stream = <<>>
    /\ pidx = 0
    /\ chunk_counter = 0
    /\ plog = <<>>
    /\ ppc = "off"

\* process_pdf_document(pdf_path, builder, multimodal) is entered
PipeInit ==
    /\ stream \in {parse_pdf(pdf) : pdf \in PdfDocs}
    /\ pidx = 0
    /\ chunk_counter = 0
    /\ plog = <<>>
    /\ ppc = "loop"

\* a text chunk whose completions parse: process_chunk writes the archive file
\* and calls load_lightrag_data, whose loops are the steps LoadEntity ... LoadReturn
PipeTextChunk ==
    /\ ppc = "loop"
    /\ pidx < Len(stream)
    /\ stream[pidx + 1].type = "text"
    /\ ~save_extraction_results_raises(TRUE, TRUE)
    /\ \E out \in PipeOutputs :
         LET counter == next_chunk_counter(chunk_counter)
             chunk_id == PdfChunkId(counter)
         IN  /\ chunk_counter' = counter
             /\ archive' = archive \cup {ArchiveFile(ChunkName(chunk_id))}
             /\ cur' = [entities_json |-> out.entities,
                        relationships_json |-> out.relationships,
                        entity_index_json |-> out.entity_index, phase |-> 1, i |-> 1]
             /\ plog' = Append(plog, [n |-> pidx + 1, type |-> "text",
                                      chunk_id |-> chunk_id, counter |-> counter,
                                      outcome |-> "running", output |-> out])
    /\ rpc' = "load"
    /\ ops' = <<>>
    /\ pidx' = pidx + 1
    /\ ppc' = "text"
    /\ UNCHANGED <<stream, nodes, props, edges, last, calls>>

\* load_lightrag_data has returned: process_chunk returns True and the loop goes on
PipeTextReturn ==
    /\ ppc = "text"
    /\ rpc = "load_done"
    /\ plog' = [plog EXCEPT ![Len(plog)].outcome = "ok"]
    /\ rpc' = "off"
    /\ ppc' = chunk_boundary(FALSE)
    /\ UNCHANGED <<stream, pidx, chunk_counter, cur, ops, archive, storeVars>>

\* a text chunk with a completion that does not parse: process_chunk raises
\* and the except clause of the text branch prints the error
PipeTextChunkRaises ==
    /\ ppc = "loop"
    /\ pidx < Len(stream)
    /\ stream[pidx + 1].type = "text"
    /\ \E triples_ok \in BOOLEAN, key_values_ok \in BOOLEAN :
         save_extraction_results_raises(triples_ok, key_values_ok)
    /\ LET counter == next_chunk_counter(chunk_counter)
       IN  /\ chunk_counter' = counter
           /\ plog' = Append(plog, [n |-> pidx + 1, type |-> "text",
                                    chunk_id |-> PdfChunkId(counter), counter |-> counter,
                                    outcome |-> "error", output |-> <<>>])
    /\ pidx' = pidx + 1
    /\ ppc' = chunk_boundary(TRUE)
    /\ UNCHANGED <<stream, nodes, props, edges, last, calls, rpc, cur, ops, archive>>

\* an image chunk: multimodal.extract_image_info(chunk['content'], chunk['context'])
\* raises AttributeError, because MultimodalProcessor defines no such method;
\* create_multimodal_graph is not reached and the except clause prints the error
PipeImageChunk ==
    /\ ppc = "loop"
    /\ pidx < Len(stream)
    /\ stream[pidx + 1].type = "image"
    /\ "extract_image_info" \notin MultimodalProcessorMethods
    /\ LET counter == next_chunk_counter(chunk_counter)
       IN  /\ chunk_counter' = counter
           /\ plog' = Append(plog, [n |-> pidx + 1, type |-> "image",
                                    chunk_id |-> PdfChunkId(counter), counter |-> counter,
                                    outcome |-> "error",
                                    output |-> <<stream[pidx + 1].content,
                                                 stream[pidx + 1].context>>])
    /\ pidx' = pidx + 1
    /\ ppc' = chunk_boundary(TRUE)
    /\ UNCHANGED <<stream, nodes, props, edges, last, calls, rpc, cur, ops, archive>>

\* the generator raises while it extracts the next image: the exception comes
\* out of the for statement, which no try encloses, and out of
\* process_pdf_document
PipeParserRaises ==
    /\ ppc = "loop"
    /\ pidx < Len(stream)
    /\ stream[pidx + 1].type = "image"
    /\ ppc' = "parser_raised"
    /\ UNCHANGED <<stream, pidx, chunk_counter, plog, storeVars, reconVars>>

\* the generator is exhausted: "PDF processing complete!"
PipeComplete ==
    /\ ppc = "loop"
    /\ pidx = Len(stream)
    /\ ppc' = "complete"
    /\ UNCHANGED <<stream, pidx, chunk_counter, plog, storeVars, reconVars>>

-----------------------------------------------------------------------------
(* Context window builder: get_surrounding_context(chunks, index, delta) *)

\* the chunk at Python index k: its content names its kind and its index
CtxChunk(type, k) ==
    [type |-> type,
     content |-> (IF type = "text" THEN <<"t">> ELSE <<"i">>) \o IntStr(k)]

\* the chunk sequences with the given kinds
CtxChunks(types) == [p \in 1..Len(types) |-> CtxChunk(types[p], p - 1)]

CtxInputs ==
    { CtxChunks(types) : types \in UNION { [1..n -> {"text", "image"}] : n \in 1..MaxCtxLen } }

\* the separator: a blank line
BlankLine == <<NL, NL>>

\* the contents of the text chunks at Python indices start .. stop - 1
RECURSIVE TextContents(_, _, _)
TextContents(chunk_list, start, stop) ==
    IF start >= stop THEN <<>>
    ELSE (IF chunk_list[start + 1].type = "text"
          THEN <<chunk_list[start + 1].content>> ELSE <<>>)
         \o TextContents(chunk_list, start + 1, stop)

\* a variant that takes every chunk of the window, text or not
get_surrounding_context_anytype(chunk_list, index, delta) ==
    LET first == IF index - delta < 0 THEN 0 ELSE index - delta
        stop == IF index + delta + 1 > Len(chunk_list) THEN Len(chunk_list)
                ELSE index + delta + 1
        contents == [p \in 1..(stop - first) |-> chunk_list[first + p].content]
    IN  join(BlankLine, SubSeq(contents, 1, index - first)
                        \o SubSeq(contents, index - first + 2, stop - first))

\* get_surrounding_context(chunks, index, delta): the text chunks of
\* [index - delta, index) and then of (index, index + delta], clipped to the
\* sequence, joined by a blank line
get_surrounding_context(chunk_list, index, delta) ==
    LET first == IF index - delta < 0 THEN 0 ELSE index - delta
        stop == IF index + delta + 1 > Len(chunk_list) THEN Len(chunk_list)
                ELSE index + delta + 1
        before == TextContents(chunk_list, first, index)
        after == TextContents(chunk_list, index + 1, stop)
    IN  join(BlankLine, before \o after)

ContextIdle ==
    /\ ctxChunks = <<>>
    /\ ctxIndex = 0
    /\ ctxDelta = 0
    /\ ctxOut = <<>>
    /\ xpc = "off"

ContextInit ==
    /\ ctxChunks \in CtxInputs
    /\ ctxIndex = 0
    /\ ctxDelta = 0
    /\ ctxOut = <<>>
    /\ xpc = "ready"

\* context = get_surrounding_context(chunks, index, delta)
BuildContext ==
    /\ xpc = "ready"
    /\ \E index \in 0..(Len(ctxChunks) - 1), delta \in 0..MaxDelta :
         /\ ctxIndex' = index
         /\ ctxDelta' = delta
         /\ ctxOut' = get_surrounding_context(ctxChunks, index, delta)
    /\ xpc' = "done"
    /\ UNCHANGED ctxChunks

-----------------------------------------------------------------------------
(* PDFParser.parse_pdf as a generator *)

ParseDocs == StrsUpTo(PdfPages, MaxParsePages)

ParseIdle ==
    /\ parseDoc = <<>>
    /\ parsed = <<>>
    /\ gpc = "off"

\* parser.parse_pdf(pdf_path) is called: doc = fitz.open(pdf_path)
ParseInit ==
    /\ parseDoc \in ParseDocs
    /\ parsed = <<>>
    /\ gpc = "open"

\* the consumer asks for the next chunk and the generator yields it
ParseYield ==
    /\ gpc = "open"
    /\ Len(parsed) < Len(parse_pdf(parseDoc))
    /\ parsed' = Append(parsed, parse_pdf(parseDoc)[Len(parsed) + 1])
    /\ UNCHANGED <<parseDoc, gpc>>

\* doc.extract_image(xref) or the write of the image file raises: nothing in
\* parse_pdf catches it, the generator ends with the exception
ParseRaises ==
    /\ gpc = "open"
    /\ Len(parsed) < Len(parse_pdf(parseDoc))
    /\ parse_pdf(parseDoc)[Len(parsed) + 1].type = "image"
    /\ gpc' = "raised"
    /\ UNCHANGED <<parseDoc, parsed>>

\* the loops are over: doc.close()
ParseClose ==
    /\ gpc = "open"
    /\ Len(parsed) = Len(parse_pdf(parseDoc))
    /\ gpc' = "closed"
    /\ UNCHANGED <<parseDoc, parsed>>

-----------------------------------------------------------------------------
(* Extraction adapter: the calls to the generative model *)

\* "[VLM processing failed]"
VlmFailed ==
    <<"[", "V", "L", "M", SP, "p", "r", "o", "c", "e", "s", "s", "i", "n", "g", SP,
      "f", "a", "i", "l", "e", "d", "]">>

\* {"entities": [], "relationships": []}
EmptyStructure == [entities |-> <<>>, relationships |-> <<>>]

\* the one well-formed JSON text among the responses
JsonDoc == <<"{", "}">>

\* json.loads(s): the parsed document, or JSONDecodeError
json_loads_raises(s) == s # JsonDoc
json_loads(s) == [document |-> s]

\* the responses of the model: a body, bare or wrapped in code fences
AdapterResponses ==
    { WrapAll(body, tags) : body \in StrsUpTo({"{", "}", "x"}, MaxRespLen),
                            tags \in FenceTagSeqs }

AdapterCalls == {"vlm_detail", "vlm_entity", "invoke", "extract_entities_from_description"}

Returned(value) == [kind |-> "returned", value |-> value]
Raised == [kind |-> "raised", value |-> <<>>]

\* MultimodalProcessor._call_vlm: the chat call is inside try/except Exception
call_vlm(fails, content) ==
    IF fails THEN Returned(VlmFailed) ELSE Returned(content)

\* ChatOllamaMini.invoke: the chat call stands alone
invoke(fails, content) ==
    IF fails THEN Raised ELSE Returned(content)

\* MultimodalProcessor.extract_entities_from_description: ollama.chat stands
\* before the try; only json.loads is inside it
extract_entities_from_description(fails, content) ==
    IF fails THEN Raised
    ELSE LET stripped == clean_code_fence(content)
         IN  IF json_loads_raises(stripped) THEN Returned(EmptyStructure)
             ELSE Returned(json_loads(stripped))

AdapterIdle ==
    /\ acall = "none"
    /\ afails = FALSE
    /\ acontent = <<>>
    /\ aout = [kind |-> "none", value |-> <<>>]
    /\ apc = "off"

AdapterInit ==
    /\ acall \in AdapterCalls
    /\ afails \in BOOLEAN
    /\ acontent \in AdapterResponses
    /\ aout = [kind |-> "none", value |-> <<>>]
    /\ apc = "ready"

\* self._call_vlm(image_b64, detail_prompt) or self._call_vlm(image_b64, entity_prompt)
CallVlm ==
    /\ apc = "ready"
    /\ acall \in {"vlm_detail", "vlm_entity"}
    /\ aout' = call_vlm(afails, acontent)
    /\ apc' = "done"
    /\ UNCHANGED <<acall, afails, acontent>>

\* self.llm.invoke(messages)
Invoke ==
    /\ apc = "ready"
    /\ acall = "invoke"
    /\ aout' = invoke(afails, acontent)
    /\ apc' = "done"
    /\ UNCHANGED <<acall, afails, acontent>>

\* extract_entities_from_description(description_text)
ExtractEntitiesFromDescription ==
    /\ apc = "ready"
    /\ acall = "extract_entities_from_description"
    /\ aout' = extract_entities_from_description(afails, acontent)
    /\ apc' = "done"
    /\ UNCHANGED <<acall, afails, acontent>>

-----------------------------------------------------------------------------
(* Two clients running Step 1 of load_lightrag_data against one store *)

\* the two clients; each store call is one session and is atomic
Clients == {"a", "b"}

RaceLists == SeqsUpTo(RawEntities, MaxList) \ {<<>>}

RaceIdle ==
    /\ raceList = [c \in Clients |-> <<>>]
    /\ raceI = [c \in Clients |-> 1]
    /\ raceSeen = [c \in Clients |-> FALSE]
    /\ racePc = [c \in Clients |-> "off"]

RaceInit ==
    /\ raceList \in [Clients -> RaceLists]
    /\ raceI = [c \in Clients |-> 1]
    /\ raceSeen = [c \in Clients |-> FALSE]
    /\ racePc = [c \in Clients |-> "check"]

\* if neo4j_handler.entity_exists(entity_name): the answer of the store
RaceCheck(c) ==
    /\ racePc[c] = "check"
    /\ raceSeen' = [raceSeen EXCEPT ![c] =
                       entity_exists(Store, sanitize_label(raceList[c][raceI[c]].name))]
    /\ racePc' = [racePc EXCEPT ![c] = "decide"]
    /\ UNCHANGED <<raceList, raceI, storeVars>>

\* the branch taken on that answer: the skip message, or create_entity
RaceCreateOrSkip(c) ==
    /\ racePc[c] = "decide"
    /\ LET entity == raceList[c][raceI[c]]
       IN  IF raceSeen[c]
           THEN UNCHANGED <<nodes, props, edges>>
           ELSE SetStore(create_entity(Store, sanitize_label(entity.name),
                                       sanitize_label(entity.type), {}))
    /\ raceI' = [raceI EXCEPT ![c] = raceI[c] + 1]
    /\ racePc' = [racePc EXCEPT ![c] =
                     IF raceI[c] + 1 > Len(raceList[c]) THEN "done" ELSE "check"]
    /\ UNCHANGED <<raceList, raceSeen, last, calls>>

-----------------------------------------------------------------------------
(* main: the command-line entry point *)

\* str.lower()
lower(s) ==
    [i \in 1..Len(s) |->
        IF \E j \in 1..Len(UpperLetters) : UpperLetters[j] = s[i]
        THEN LowerLetters[CHOOSE j \in 1..Len(UpperLetters) : UpperLetters[j] = s[i]]
        ELSE s[i]]

\* the largest index of character ch in s, 0 when s has none
LastIndex(s, ch) ==
    IF \E i \in 1..Len(s) : s[i] = ch
    THEN CHOOSE i \in 1..Len(s) : s[i] = ch /\ \A j \in (i + 1)..Len(s) : s[j] # ch
    ELSE 0

\* os.path.splitext(path)[1]: from the last dot of the last path component
\* on, unless only dots stand before it in that component
splitext_ext(path) ==
    LET sep == LastIndex(path, "/")
        dot == LastIndex(path, ".")
    IN  IF dot > sep /\ \E i \in (sep + 1)..(dot - 1) : path[i] # "."
        THEN SubSeq(path, dot, Len(path))
        ELSE <<>>

\* file_path = "./images/sample.pdf"
DefaultPath ==
    <<".", "/", "i", "m", "a", "g", "e", "s", "/", "s", "a", "m", "p", "l", "e",
      ".", "p", "d", "f">>

PdfExt == <<".", "p", "d", "f">>
ImageExts ==
    { <<".", "j", "p", "g">>, <<".", "j", "p", "e", "g">>, <<".", "p", "n", "g">>,
      <<".", "b", "m", "p">>, <<".", "g", "i", "f">> }

\* the paths given on the command line
GivenPaths ==
    { stem \o ext :
        stem \in { <<"a">>, <<"a", ".", "b">>, <<>> },
        ext \in ImageExts \cup { PdfExt, <<".", "P", "D", "F">>, <<".", "P", "n", "g">>,
                                 <<".", "t", "x", "t">>, <<".", "d", "o", "c", "x">> } }
    \cup { <<"a">>, <<"a", "/", "b">> }

\* the branch of main for file_path
main_route(file_path, exists) ==
    IF exists
    THEN LET file_ext == lower(splitext_ext(file_path))
         IN  IF file_ext = PdfExt THEN "pdf"
             ELSE IF file_ext \in ImageExts THEN "image"
             ELSE "unsupported"
    ELSE "fallback_text"

\* the exit statuses a branch can end with: main returns normally after its
\* prints; process_pdf_document and the fallback process_chunk are called
\* outside any try, so their exceptions end the process with status 1
main_exits(route) ==
    IF route \in {"pdf", "fallback_text"} THEN {0, 1} ELSE {0}

MainIdle ==
    /\ margv = <<>>
    /\ mexists = FALSE
    /\ mfile = <<>>
    /\ mroute = "none"
    /\ mexit = 0
    /\ mpc = "off"

MainInit ==
    /\ margv \in {<<>>} \cup {<<path>> : path \in GivenPaths}
    /\ mexists \in BOOLEAN
    /\ mfile = <<>>
    /\ mroute = "none"
    /\ mexit = 0
    /\ mpc = "start"

\* file_path = "./images/sample.pdf"; if len(sys.argv) > 1: file_path = sys.argv[1]
MainResolve ==
    /\ mpc = "start"
    /\ mfile' = IF Len(margv) > 0 THEN margv[1] ELSE DefaultPath
    /\ mpc' = "resolved"
    /\ UNCHANGED <<margv, mexists, mroute, mexit>>

\* if os.path.exists(file_path): ... else: ... and the end of the process
MainDispatch ==
    /\ mpc = "resolved"
    /\ mroute' = main_route(mfile, mexists)
    /\ mexit' \in main_exits(main_route(mfile, mexists))
    /\ mpc' = "done"
    /\ UNCHANGED <<margv, mexists, mfile>>

-----------------------------------------------------------------------------
(* The store around one chunk *)

AtomicIdle == storeBefore = <<>>

\* no chunk has been processed: the store is the empty database
AtomicInit == storeBefore = [nodes |-> {}, props |-> <<>>, edges |-> {}]

\* process_chunk or create_multimodal_graph is entered: what the store holds
\* at that point
ChunkBegins == storeBefore' = Store

-----------------------------------------------------------------------------
(* Specifications *)

ReconNext ==
    \/ LoadStart /\ UNCHANGED <<fenceVars, formatVars, docVars, pipeVars, ctxVars, parseVars, adapterVars, raceVars, mainVars, atomVars>>
    \/ ProcessChunkRaises /\ UNCHANGED <<fenceVars, formatVars, docVars, pipeVars, ctxVars, parseVars, adapterVars, raceVars, mainVars, atomVars>>
    \/ LoadEntity /\ UNCHANGED <<fenceVars, formatVars, docVars, pipeVars, ctxVars, parseVars, adapterVars, raceVars, mainVars, atomVars>>
    \/ LoadRelationship /\ UNCHANGED <<fenceVars, formatVars, docVars, pipeVars, ctxVars, parseVars, adapterVars, raceVars, mainVars, atomVars>>
    \/ LoadIndex /\ UNCHANGED <<fenceVars, formatVars, docVars, pipeVars, ctxVars, parseVars, adapterVars, raceVars, mainVars, atomVars>>
    \/ LoadNextPhase /\ UNCHANGED <<fenceVars, formatVars, docVars, pipeVars, ctxVars, parseVars, adapterVars, raceVars, mainVars, atomVars>>
    \/ LoadReturn /\ UNCHANGED <<fenceVars, formatVars, docVars, pipeVars, ctxVars, parseVars, adapterVars, raceVars, mainVars, atomVars>>
    \/ MultimodalStart /\ UNCHANGED <<fenceVars, formatVars, docVars, pipeVars, ctxVars, parseVars, adapterVars, raceVars, mainVars, atomVars>>
    \/ MultimodalExtract /\ UNCHANGED <<fenceVars, formatVars, docVars, pipeVars, ctxVars, parseVars, adapterVars, raceVars, mainVars, atomVars>>
    \/ MultimodalExtractRaises /\ UNCHANGED <<fenceVars, formatVars, docVars, pipeVars, ctxVars, parseVars, adapterVars, raceVars, mainVars, atomVars>>
    \/ MultimodalEntity /\ UNCHANGED <<fenceVars, formatVars, docVars, pipeVars, ctxVars, parseVars, adapterVars, raceVars, mainVars, atomVars>>
    \/ MultimodalReturn /\ UNCHANGED <<fenceVars, formatVars, docVars, pipeVars, ctxVars, parseVars, adapterVars, raceVars, mainVars, atomVars>>

InitRecon == StoreInit /\ ReconInit /\ FenceIdle /\ FormatIdle /\ DocIdle /\ PipeIdle /\ ContextIdle /\ ParseIdle /\ AdapterIdle /\ RaceIdle /\ MainIdle /\ AtomicIdle

SpecRecon == InitRecon /\ [][ReconNext]_vars

StoreNext ==
    \/ CallCreateEntity /\ UNCHANGED <<fenceVars, formatVars, docVars, reconVars, pipeVars, ctxVars, parseVars, adapterVars, raceVars, mainVars, atomVars>>
    \/ CallCreateRelationship /\ UNCHANGED <<fenceVars, formatVars, docVars, reconVars, pipeVars, ctxVars, parseVars, adapterVars, raceVars, mainVars, atomVars>>
    \/ CallAddEntityIndex /\ UNCHANGED <<fenceVars, formatVars, docVars, reconVars, pipeVars, ctxVars, parseVars, adapterVars, raceVars, mainVars, atomVars>>
    \/ ClearDatabase /\ UNCHANGED <<fenceVars, formatVars, docVars, reconVars, pipeVars, ctxVars, parseVars, adapterVars, raceVars, mainVars, atomVars>>

InitStore == StoreInit /\ ReconIdle /\ FenceIdle /\ FormatIdle /\ DocIdle /\ PipeIdle /\ ContextIdle /\ ParseIdle /\ AdapterIdle /\ RaceIdle /\ MainIdle /\ AtomicIdle

SpecStore == InitStore /\ [][StoreNext]_vars

DocNext ==
    \/ ExtractPage /\ UNCHANGED <<fenceVars, formatVars, storeVars, reconVars, pipeVars, ctxVars, parseVars, adapterVars, raceVars, mainVars, atomVars>>
    \/ TextDone /\ UNCHANGED <<fenceVars, formatVars, storeVars, reconVars, pipeVars, ctxVars, parseVars, adapterVars, raceVars, mainVars, atomVars>>
    \/ ConvertImages /\ UNCHANGED <<fenceVars, formatVars, storeVars, reconVars, pipeVars, ctxVars, parseVars, adapterVars, raceVars, mainVars, atomVars>>
    \/ ConvertFails /\ UNCHANGED <<fenceVars, formatVars, storeVars, reconVars, pipeVars, ctxVars, parseVars, adapterVars, raceVars, mainVars, atomVars>>
    \/ InsertImage /\ UNCHANGED <<fenceVars, formatVars, storeVars, reconVars, pipeVars, ctxVars, parseVars, adapterVars, raceVars, mainVars, atomVars>>
    \/ ReturnChunks /\ UNCHANGED <<fenceVars, formatVars, storeVars, reconVars, pipeVars, ctxVars, parseVars, adapterVars, raceVars, mainVars, atomVars>>

InitDoc == DocInit /\ FenceIdle /\ FormatIdle /\ StoreIdle /\ ReconIdle /\ PipeIdle /\ ContextIdle /\ ParseIdle /\ AdapterIdle /\ RaceIdle /\ MainIdle /\ AtomicIdle

SpecDoc == InitDoc /\ [][DocNext]_vars

FormatNext ==
    \/ Format /\ UNCHANGED <<fenceVars, docVars, storeVars, reconVars, pipeVars, ctxVars, parseVars, adapterVars, raceVars, mainVars, atomVars>>
    \/ FormatRaises /\ UNCHANGED <<fenceVars, docVars, storeVars, reconVars, pipeVars, ctxVars, parseVars, adapterVars, raceVars, mainVars, atomVars>>

InitFormat == FormatInit /\ FenceIdle /\ DocIdle /\ StoreIdle /\ ReconIdle /\ PipeIdle /\ ContextIdle /\ ParseIdle /\ AdapterIdle /\ RaceIdle /\ MainIdle /\ AtomicIdle

SpecFormat == InitFormat /\ [][FormatNext]_vars

PipeNext ==
    \/ PipeTextChunk /\ UNCHANGED <<fenceVars, formatVars, docVars, ctxVars, parseVars, adapterVars, raceVars, mainVars, atomVars>>
    \/ LoadEntity /\ UNCHANGED <<fenceVars, formatVars, docVars, pipeVars, ctxVars, parseVars, adapterVars, raceVars, mainVars, atomVars>>
    \/ LoadRelationship /\ UNCHANGED <<fenceVars, formatVars, docVars, pipeVars, ctxVars, parseVars, adapterVars, raceVars, mainVars, atomVars>>
    \/ LoadIndex /\ UNCHANGED <<fenceVars, formatVars, docVars, pipeVars, ctxVars, parseVars, adapterVars, raceVars, mainVars, atomVars>>
    \/ LoadNextPhase /\ UNCHANGED <<fenceVars, formatVars, docVars, pipeVars, ctxVars, parseVars, adapterVars, raceVars, mainVars, atomVars>>
    \/ LoadReturn /\ UNCHANGED <<fenceVars, formatVars, docVars, pipeVars, ctxVars, parseVars, adapterVars, raceVars, mainVars, atomVars>>
    \/ PipeTextReturn /\ UNCHANGED <<fenceVars, formatVars, docVars, ctxVars, parseVars, adapterVars, raceVars, mainVars, atomVars>>
    \/ PipeTextChunkRaises /\ UNCHANGED <<fenceVars, formatVars, docVars, ctxVars, parseVars, adapterVars, raceVars, mainVars, atomVars>>
    \/ PipeImageChunk /\ UNCHANGED <<fenceVars, formatVars, docVars, ctxVars, parseVars, adapterVars, raceVars, mainVars, atomVars>>
    \/ PipeParserRaises /\ UNCHANGED <<fenceVars, formatVars, docVars, ctxVars, parseVars, adapterVars, raceVars, mainVars, atomVars>>
    \/ PipeComplete /\ UNCHANGED <<fenceVars, formatVars, docVars, ctxVars, parseVars, adapterVars, raceVars, mainVars, atomVars>>

InitPipe == StoreInit /\ PipeInit /\ ReconIdle /\ FenceIdle /\ FormatIdle /\ DocIdle /\ ContextIdle /\ ParseIdle /\ AdapterIdle /\ RaceIdle /\ MainIdle /\ AtomicIdle

\* process_pdf_document is one sequential loop: it keeps running until it returns
SpecPipe == InitPipe /\ [][PipeNext]_vars /\ WF_vars(PipeNext)

FenceNext ==
    \/ Clean /\ UNCHANGED <<formatVars, docVars, storeVars, reconVars, pipeVars, ctxVars, parseVars, adapterVars, raceVars, mainVars, atomVars>>
    \/ CleanAgain /\ UNCHANGED <<formatVars, docVars, storeVars, reconVars, pipeVars, ctxVars, parseVars, adapterVars, raceVars, mainVars, atomVars>>

InitFence == FenceInit /\ FormatIdle /\ DocIdle /\ StoreIdle /\ ReconIdle /\ PipeIdle /\ ContextIdle /\ ParseIdle /\ AdapterIdle /\ RaceIdle /\ MainIdle /\ AtomicIdle

SpecFence == InitFence /\ [][FenceNext]_vars

ContextNext ==
    \/ BuildContext /\ UNCHANGED <<fenceVars, formatVars, docVars, storeVars, reconVars, pipeVars, parseVars, adapterVars, raceVars, mainVars, atomVars>>

InitContext == ContextInit /\ FenceIdle /\ FormatIdle /\ DocIdle /\ StoreIdle /\ ReconIdle /\ PipeIdle /\ ParseIdle /\ AdapterIdle /\ RaceIdle /\ MainIdle /\ AtomicIdle

SpecContext == InitContext /\ [][ContextNext]_vars

ParseNext ==
    \/ ParseYield /\ UNCHANGED <<fenceVars, formatVars, docVars, storeVars, reconVars, pipeVars, ctxVars, adapterVars, raceVars, mainVars, atomVars>>
    \/ ParseRaises /\ UNCHANGED <<fenceVars, formatVars, docVars, storeVars, reconVars, pipeVars, ctxVars, adapterVars, raceVars, mainVars, atomVars>>
    \/ ParseClose /\ UNCHANGED <<fenceVars, formatVars, docVars, storeVars, reconVars, pipeVars, ctxVars, adapterVars, raceVars, mainVars, atomVars>>

InitParse == ParseInit /\ FenceIdle /\ FormatIdle /\ DocIdle /\ StoreIdle /\ ReconIdle /\ PipeIdle /\ ContextIdle /\ AdapterIdle /\ RaceIdle /\ MainIdle /\ AtomicIdle

SpecParse == InitParse /\ [][ParseNext]_vars

AdapterNext ==
    \/ CallVlm /\ UNCHANGED <<fenceVars, formatVars, docVars, storeVars, reconVars, pipeVars, ctxVars, parseVars, raceVars, mainVars, atomVars>>
    \/ Invoke /\ UNCHANGED <<fenceVars, formatVars, docVars, storeVars, reconVars, pipeVars, ctxVars, parseVars, raceVars, mainVars, atomVars>>
    \/ ExtractEntitiesFromDescription /\ UNCHANGED <<fenceVars, formatVars, docVars, storeVars, reconVars, pipeVars, ctxVars, parseVars, raceVars, mainVars, atomVars>>

InitAdapter == AdapterInit /\ FenceIdle /\ FormatIdle /\ DocIdle /\ StoreIdle /\ ReconIdle /\ PipeIdle /\ ContextIdle /\ ParseIdle /\ RaceIdle /\ MainIdle /\ AtomicIdle

SpecAdapter == InitAdapter /\ [][AdapterNext]_vars

RaceNext ==
    \/ \E c \in Clients : RaceCheck(c) /\ UNCHANGED <<fenceVars, formatVars, docVars, reconVars, pipeVars, ctxVars, parseVars, adapterVars, mainVars, atomVars>>
    \/ \E c \in Clients : RaceCreateOrSkip(c) /\ UNCHANGED <<fenceVars, formatVars, docVars, reconVars, pipeVars, ctxVars, parseVars, adapterVars, mainVars, atomVars>>

InitRace == StoreInit /\ RaceInit /\ ReconIdle /\ FenceIdle /\ FormatIdle /\ DocIdle /\ PipeIdle /\ ContextIdle /\ ParseIdle /\ AdapterIdle /\ MainIdle /\ AtomicIdle

SpecRace == InitRace /\ [][RaceNext]_vars

MainNext ==
    \/ MainResolve /\ UNCHANGED <<fenceVars, formatVars, docVars, storeVars, reconVars, pipeVars, ctxVars, parseVars, adapterVars, raceVars, atomVars>>
    \/ MainDispatch /\ UNCHANGED <<fenceVars, formatVars, docVars, storeVars, reconVars, pipeVars, ctxVars, parseVars, adapterVars, raceVars, atomVars>>

InitMain == MainInit /\ FenceIdle /\ FormatIdle /\ DocIdle /\ StoreIdle /\ ReconIdle /\ PipeIdle /\ ContextIdle /\ ParseIdle /\ AdapterIdle /\ RaceIdle /\ AtomicIdle

SpecMain == InitMain /\ [][MainNext]_vars

------------------------------------------------------------AtomicNext ==
    \/ LoadStart /\ ChunkBegins /\ UNCHANGED <<fenceVars, formatVars, docVars, pipeVars, ctxVars, parseVars, adapterVars, raceVars, mainVars>>
    \/ ProcessChunkRaises /\ ChunkBegins /\ UNCHANGED <<fenceVars, formatVars, docVars, pipeVars, ctxVars, parseVars, adapterVars, raceVars, mainVars>>
    \/ LoadEntity /\ UNCHANGED storeBefore /\ UNCHANGED <<fenceVars, formatVars, docVars, pipeVars, ctxVars, parseVars, adapterVars, raceVars, mainVars>>
    \/ LoadRelationship /\ UNCHANGED storeBefore /\ UNCHANGED <<fenceVars, formatVars, docVars, pipeVars, ctxVars, parseVars, adapterVars, raceVars, mainVars>>
    \/ LoadIndex /\ UNCHANGED storeBefore /\ UNCHANGED <<fenceVars, formatVars, docVars, pipeVars, ctxVars, parseVars, adapterVars, raceVars, mainVars>>
    \/ LoadNextPhase /\ UNCHANGED storeBefore /\ UNCHANGED <<fenceVars, formatVars, docVars, pipeVars, ctxVars, parseVars, adapterVars, raceVars, mainVars>>
    \/ LoadReturn /\ UNCHANGED storeBefore /\ UNCHANGED <<fenceVars, formatVars, docVars, pipeVars, ctxVars, parseVars, adapterVars, raceVars, mainVars>>
    \/ MultimodalStart /\ ChunkBegins /\ UNCHANGED <<fenceVars, formatVars, docVars, pipeVars, ctxVars, parseVars, adapterVars, raceVars, mainVars>>
    \/ MultimodalExtract /\ UNCHANGED storeBefore /\ UNCHANGED <<fenceVars, formatVars, docVars, pipeVars, ctxVars, parseVars, adapterVars, raceVars, mainVars>>
    \/ MultimodalExtractRaises /\ UNCHANGED storeBefore /\ UNCHANGED <<fenceVars, formatVars, docVars, pipeVars, ctxVars, parseVars, adapterVars, raceVars, mainVars>>
    \/ MultimodalEntity /\ UNCHANGED storeBefore /\ UNCHANGED <<fenceVars, formatVars, docVars, pipeVars, ctxVars, parseVars, adapterVars, raceVars, mainVars>>
    \/ MultimodalReturn /\ UNCHANGED storeBefore /\ UNCHANGED <<fenceVars, formatVars, docVars, pipeVars, ctxVars, parseVars, adapterVars, raceVars, mainVars>>

InitAtomic == StoreInit /\ ReconInit /\ AtomicInit /\ FenceIdle /\ FormatIdle /\ DocIdle /\ PipeIdle /\ ContextIdle /\ ParseIdle /\ AdapterIdle /\ RaceIdle /\ MainIdle

SpecAtomic == InitAtomic /\ [][AtomicNext]_vars

-----------------
(* Segmenter claims *)

\* chunks[i].position == i for every index i
PositionsContiguous ==
    \A i \in 1..Len(chunks) : chunks[i].position = i - 1

\* an image insertion at index p gives the image position p, moves every
\* chunk previously at position >= p up by one and leaves the others alone
InsertionRenumbers ==
    (dpc = "images" /\ Len(chunks') = Len(chunks) + 1) =>
        LET p == estimate_image_position(chunks, imgIdx)
        IN  /\ chunks'[p + 1].type = "image"
            /\ chunks'[p + 1].position = p
            /\ \A i \in 1..Len(chunks) :
                 IF chunks[i].position >= p
                 THEN chunks'[i + 1] = [chunks[i] EXCEPT !.position = chunks[i].position + 1]
                 ELSE chunks'[i] = chunks[i]

\* C1: the positions of the chunk list are 0, 1, 2, ... at every point of
\* parse_pdf, and each image insertion at index p renumbers exactly the
\* chunks previously at position >= p
C1_PositionInvariant ==
    []PositionsContiguous /\ [][InsertionRenumbers]_vars

\* the list was returned after two insertions in front of later chunks
C1_Witness ==
    /\ dpc = "done"
    /\ Cardinality({i \in 1..Len(chunks) : chunks[i].type = "image"}) >= 2
    /\ \E i \in 1..Len(chunks) : \E j \in 1..Len(chunks) :
         /\ i < j
         /\ chunks[i].type = "image"
         /\ chunks[j].type = "text"
         /\ chunks[j].page = chunks[i].page
    /\ \E i \in 1..Len(chunks) : chunks[i].type = "text" /\ chunks[i].position >= 3

\* along increasing position the page numbers never decrease
PagesInOrder ==
    \A i \in 1..Len(chunks) : \A j \in 1..Len(chunks) :
        i < j => chunks[i].page <= chunks[j].page

\* some page of the document produced no text chunk
TextlessPage ==
    \E p \in 0..(Len(doc) - 1) :
        \A i \in 1..Len(chunks) : chunks[i].type = "text" => chunks[i].page # p

\* C26: in the list returned by parse_pdf no chunk of a page q comes before
\* a chunk of a page p < q, also when a page has an image and no paragraph
C26_PagesNeverDecrease ==
    dpc = "done" => PagesInOrder

\* the returned list is in page order whenever every page gave a text chunk
\* or the images could not be extracted
C26_InOrderWhenEveryPageHasText ==
    (dpc = "done" /\ ~TextlessPage) => PagesInOrder

-----------------------------------------------------------------------------
(* Graph store claims *)

\* the nodes called n after the step
NamedNodesAfter(n) == {x \in nodes' : x.name = n}

\* C2: a second create_entity(name, type) right after the first leaves the
\* node set as it was, with exactly one node of that name
C2_TwiceIsOnce ==
    [][(/\ calls' = calls + 1
        /\ last.op = "create_entity"
        /\ last'.op = "create_entity"
        /\ last'.args = last.args)
       => /\ nodes' = nodes
          /\ Cardinality(NamedNodesAfter(last'.args[1])) = 1]_vars

\* C3: from a store with no node named N, create_entity(N, T1) and then
\* create_entity(N, T2, P) with T2 # T1 leave one node named N, labelled T1,
\* whose properties include P
C3_MergeByName ==
    [][(/\ calls' = calls + 1
        /\ last.op = "create_entity"
        /\ last.fresh
        /\ last.args[3] = {}
        /\ last'.op = "create_entity"
        /\ last'.args[1] = last.args[1]
        /\ last'.args[2] # last.args[2])
       => /\ Cardinality(NamedNodesAfter(last.args[1])) = 1
          /\ \A x \in NamedNodesAfter(last.args[1]) :
               /\ x.label = last.args[2]
               /\ last'.args[3] \subseteq props'[x]]_vars

\* C4: create_relationship(s, t, r) with no node named s or no node named t
\* returns with its warning and leaves nodes, properties and edges as they were
C4_DanglingNoop ==
    [][(/\ calls' = calls + 1
        /\ last'.op = "create_relationship"
        /\ (~entity_exists(Store, last'.args[1]) \/ ~entity_exists(Store, last'.args[2])))
       => /\ nodes' = nodes
          /\ props' = props
          /\ edges' = edges
          /\ last'.msg = "could_not_create"]_vars

\* a relationship from a missing source to an existing target was asked of a
\* store that already holds an edge
C4_Witness ==
    /\ last.op = "create_relationship"
    /\ last.msg = "could_not_create"
    /\ ~entity_exists(Store, last.args[1])
    /\ entity_exists(Store, last.args[2])
    /\ edges # {}

-----------------------------------------------------------------------------
(* Reconciler claims *)

\* the store methods that create or look up entity nodes
IsEntityOp(o) == o[1] \in {"entity_exists", "create_entity"}

\* within the running load_lightrag_data call, entity operations come first,
\* relationship creations next, summary attachments last
LoadOrder ==
    \A i \in 1..Len(ops) : \A j \in 1..Len(ops) :
        i < j =>
            /\ ops[i][1] = "create_relationship" => ~IsEntityOp(ops[j])
            /\ ops[i][1] = "add_entity_index" => ops[j][1] = "add_entity_index"

\* the names of an entity list as they reach the store
ListedNames(ents) == {sanitize_label(ents[i].name) : i \in 1..Len(ents)}

\* an edge for the relationship entry rel is in the store
EdgePresent(rel) ==
    \E e \in edges :
        /\ e.src.name = sanitize_label(rel.source)
        /\ e.tgt.name = sanitize_label(rel.target)
        /\ e.rel = upper(rel.relation)

\* C5: in one load_lightrag_data call the entity loop precedes the
\* relationship loop, which precedes the summary loop, and when the call has
\* returned every relationship whose endpoints are both in the call's entity
\* list is an edge of the store
C5_EntitiesBeforeRelationships ==
    /\ rpc = "load" => LoadOrder
    /\ rpc = "load_done" =>
         /\ LoadOrder
         /\ \A k \in 1..Len(cur.relationships_json) :
              LET rel == cur.relationships_json[k]
              IN  (/\ sanitize_label(rel.source) \in ListedNames(cur.entities_json)
                   /\ sanitize_label(rel.target) \in ListedNames(cur.entities_json))
                  => EdgePresent(rel)

\* a call whose entity list names the target before the source returned with
\* the edge, a dangling relationship and a summary
C5_Witness ==
    /\ rpc = "load_done"
    /\ Len(cur.entities_json) = 2
    /\ cur.entities_json[1].name = MIT
    /\ cur.entities_json[2].name = DrChen
    /\ Len(cur.relationships_json) = 2
    /\ cur.relationships_json[1].source = MIT
    /\ cur.relationships_json[2].source = DrChen
    /\ Len(cur.entity_index_json) = 1
    /\ EdgePresent(cur.relationships_json[2])
    /\ ~EdgePresent(cur.relationships_json[1])

\* C6: after any sequence of text-chunk and image-chunk reconciliations no
\* two nodes of the store have the same name
C6_NamesUnique ==
    rpc \in {"idle", "load_done", "mm_done"} =>
        \A x \in nodes : \A y \in nodes : x.name = y.name => x = y

-----------------------------------------------------------------------------
(* Prompt template claims *)

\* the items of a template in rendering order, nested blocks flattened
RECURSIVE Flatten(_)
Flatten(items) ==
    IF items = <<>> THEN <<>>
    ELSE (IF Head(items).kind = "block" THEN Flatten(Head(items).items)
          ELSE <<Head(items)>>) \o Flatten(Tail(items))

\* one pass over the template text: each placeholder occurrence of a supplied
\* key gives that key's value, every other character is copied
RECURSIVE SubstituteFrom(_, _, _)
SubstituteFrom(s, i, mapping) ==
    IF i > Len(s) THEN <<>>
    ELSE LET hits == {j \in 1..Len(mapping) :
                        /\ i + Len(mapping[j].k) + 1 <= Len(s)
                        /\ SubSeq(s, i, i + Len(mapping[j].k) + 1) = Placeholder(mapping[j].k)}
         IN  IF hits # {}
             THEN LET j == CHOOSE j \in hits : TRUE
                  IN  mapping[j].v \o SubstituteFrom(s, i + Len(mapping[j].k) + 2, mapping)
             ELSE <<s[i]>> \o SubstituteFrom(s, i + 1, mapping)

\* C7: format replaces exactly the placeholder occurrences of the template
\* by the supplied values and leaves every other character as it was
C7_OnlyPlaceholdersReplaced ==
    fpc = "done" =>
        LET flat == Flatten(messages)
        IN  /\ Len(rendered) = Len(flat)
            /\ \A i \in 1..Len(flat) :
                 /\ rendered[i].role = flat[i].role
                 /\ rendered[i].content = SubstituteFrom(flat[i].content, 1, kwargs)

-----------------------------------------------------------------------------
(* Code-fence claims *)

\* C8 as stated: for every input, cleaning twice equals cleaning once
C8_IdempotentAlways ==
    cpc = "twice" => cleaned2 = cleaned

\* C8 amended: cleaning twice equals cleaning once whenever the first result
\* does not itself begin with a code fence
C8_IdempotentUnlessNested ==
    (cpc = "twice" /\ ~startswith(cleaned, Fence)) => cleaned2 = cleaned

\* a once-fenced payload with surrounding blanks was cleaned twice
C8_Witness ==
    /\ cpc = "twice"
    /\ Len(fenceTags) = 1
    /\ payload # strip(payload)
    /\ ~startswith(cleaned, Fence)
    /\ cleaned # raw

\* C9 as stated: a payload wrapped once comes back exactly
C9_WrappedExact ==
    (cpc # "input" /\ Len(fenceTags) = 1) => cleaned = payload

\* C9 amended: a payload wrapped once comes back with its leading and
\* trailing whitespace removed and its line breaks written as \n; it comes
\* back exactly when it has no surrounding whitespace and no \r
C9_WrappedStripped ==
    (cpc # "input" /\ Len(fenceTags) = 1) =>
        /\ cleaned = strip(join(<<NL>>, splitlines(payload)))
        /\ (\A i \in 1..Len(payload) : payload[i] # CR) => cleaned = strip(payload)
        /\ ((\A i \in 1..Len(payload) : payload[i] # CR) /\ payload = strip(payload))
              => cleaned = payload

\* a non-empty payload wrapped in a json-tagged fence came back exactly
C9_Witness ==
    /\ cpc # "input"
    /\ fenceTags = <<JsonTag>>
    /\ Len(payload) >= 3
    /\ cleaned = payload

\* whether a string counts as fenced: its trimmed form opens with a fence
IsFenced(s) == startswith(strip(s), Fence)

\* C10 as stated: an unfenced payload comes back unchanged
C10_UnfencedNoop ==
    (cpc # "input" /\ fenceTags = <<>> /\ ~IsFenced(payload)) => cleaned = payload

\* C10 amended: an unfenced payload comes back with its leading and trailing
\* whitespace removed, and unchanged when it has none
C10_UnfencedStripped ==
    (cpc # "input" /\ fenceTags = <<>> /\ ~IsFenced(payload)) =>
        /\ cleaned = strip(payload)
        /\ payload = strip(payload) => cleaned = payload

\* an unfenced payload that holds backticks and an inner line break came back
C10_Witness ==
    /\ cpc # "input"
    /\ fenceTags = <<>>
    /\ ~IsFenced(payload)
    /\ \E i \in 1..Len(payload) : payload[i] = BT
    /\ \E i \in 1..Len(payload) : payload[i] = NL
    /\ cleaned = payload

-----------------------------------------------------------------------------
(* Parse-failure claims *)

\* C11: when the model output for a text chunk or for an image description
\* is still not well-formed JSON after fence stripping, the pipeline does not
\* raise: it goes on with the empty structure and runs the reconcile step on
\* it.  So process_chunk never ends by raising on such an output, and
\* create_multimodal_graph never ends by raising on it either.
C11_MalformedYieldsEmpty ==
    /\ rpc # "chunk_raised"
    /\ rpc # "mm_raised"

-----------------------------------------------------------------------------
(* Orchestrator claims *)

\* the chunks taken so far are the first chunks of the stream, each taken
\* once and in yield order
TakenInOrder ==
    /\ Len(plog) = pidx
    /\ pidx <= Len(stream)
    /\ \A i \in 1..Len(plog) : plog[i].n = i /\ plog[i].type = stream[i].type

\* no exception of a chunk has left the loop
CaughtAtBoundary == ppc \in {"loop", "text", "complete", "parser_raised"}

\* the parser itself raised while it produced the next chunk
ParserRaised == ppc = "parser_raised"

\* the completion point, with every chunk of the stream taken
RunComplete == ppc = "complete" /\ Len(plog) = Len(stream)

\* C12: in process_pdf_document an exception raised while one chunk (text or
\* image) is processed is caught at the chunk boundary, every later chunk the
\* parser yields is still processed, in yield order and exactly once, and the
\* run always reaches its completion point whatever chunks fail, as long as
\* the parser yields the chunks.
C12_FailuresDoNotStopTheRun ==
    /\ [](TakenInOrder /\ CaughtAtBoundary)
    /\ [](ppc = "complete" => RunComplete)
    /\ <>(RunComplete \/ ParserRaised)

\* a completed run in which a chunk failed and a later chunk was processed
C12_Witness ==
    /\ RunComplete
    /\ \E i \in 1..Len(plog) : \E j \in 1..Len(plog) :
         /\ i < j
         /\ plog[i].outcome = "error"
         /\ plog[j].outcome = "ok"

-----------------------------------------------------------------------------
(* Sanitization claims *)

\* a string sanitize_label leaves as it is: the result of sanitize_label
Sanitized(x) == sanitize_label(x) = x

\* the entity names and entity types among the arguments of a store call
NameArguments(o) ==
    CASE o[1] = "entity_exists" -> {o[2]}
      [] o[1] = "create_entity" -> {o[2], o[3]}
      [] o[1] = "create_relationship" -> {o[2], o[3]}
      [] o[1] = "add_entity_index" -> {o[2]}

\* C13: every entity name and entity type that reaches a graph-store
\* operation (entity_exists, create_entity, create_relationship,
\* add_entity_index) has been passed through sanitize_label first, on the
\* text path and on the image path alike.
C13_AllSanitized ==
    \A k \in 1..Len(ops) : \A x \in NameArguments(ops[k]) : Sanitized(x)

-----------------------------------------------------------------------------
(* End-to-end scenario *)

WORKS_AT == <<"W", "O", "R", "K", "S", "_", "A", "T">>

\* a node named source and a node named target joined by a WORKS_AT edge
JoinedByWorksAt(source, target) ==
    \E x \in nodes : \E y \in nodes :
        /\ x.name = source
        /\ y.name = target
        /\ [src |-> x, rel |-> WORKS_AT, tgt |-> y] \in edges

\* C14: after process_chunk has processed the text "Dr. Sarah Chen is a
\* cardiologist at Stanford Medical Center." and the extraction step returned
\* the entities "Dr. Sarah Chen" and "Stanford Medical Center" and a works_at
\* relationship between them, the store has a node named "Dr. Sarah Chen" and
\* a node named "Stanford Medical Center" joined by a directed edge from the
\* former to the latter whose label is the upper-case WORKS_AT.
C14_EndToEnd ==
    \A k \in 1..Len(plog) :
        plog[k].outcome = "ok" => JoinedByWorksAt(SarahChen, Stanford)

\* what the code leaves instead: the same edge between the sanitized names
C14_SanitizedEndToEnd ==
    \A k \in 1..Len(plog) :
        plog[k].outcome = "ok" =>
            JoinedByWorksAt(sanitize_label(SarahChen), sanitize_label(Stanford))

-----------------------------------------------------------------------------
(* Multimodal anchor claims *)

InMultimodal == rpc \in {"mm_extract", "mm_entities", "mm_done", "mm_raised"}

\* the anchor node of the running create_multimodal_graph call
AnchorNode == Node(cur.anchor_name, MultimodalAnchor)

\* the first store call of create_multimodal_graph writes the anchor, and the
\* anchor node is there from then on
AnchorFirst ==
    InMultimodal =>
        /\ Len(ops) >= 1
        /\ ops[1] = <<"create_entity", cur.anchor_name, MultimodalAnchor>>
        /\ AnchorNode \in nodes

\* at return every extracted entity has its BELONGS_TO edge to the anchor
EntitiesBelong ==
    rpc = "mm_done" =>
        \A k \in 1..Len(cur.entities) :
            [src |-> Node(cur.entities[k].name, cur.entities[k].type),
             rel |-> BELONGS_TO, tgt |-> AnchorNode] \in edges

\* no BELONGS_TO edge leaves the anchor
NoEdgeFromAnchor ==
    InMultimodal =>
        \A e \in edges : e.rel = BELONGS_TO => e.src # AnchorNode

\* C15: in create_multimodal_graph the anchor node is written before any
\* entity node or BELONGS_TO edge of that image, and when the call returns
\* every entity extracted from the description has a BELONGS_TO edge directed
\* from the entity node to the anchor node, never from the anchor to an entity.
C15_AnchorFirstEntityToAnchor ==
    /\ AnchorFirst
    /\ EntitiesBelong
    /\ NoEdgeFromAnchor

(***************************************************************************)
(* Image chunks of a PDF run                                               *)
(***************************************************************************)

HasProperty(x, key) == \E kv \in props[x] : kv[1] = key

\* the store holds the anchor of the image chunk that got this counter
Anchored(counter) ==
    \E x \in nodes :
        /\ x.label = MultimodalAnchor
        /\ x.name = AnchorName(counter)
        /\ HasProperty(x, "modality")
        /\ HasProperty(x, "image_path")
        /\ HasProperty(x, "detailed_description")

\* the description request of the k-th chunk was built from the chunk's own
\* content and context fields
RequestedWithContext(k) ==
    plog[k].output = <<stream[plog[k].n].content, stream[plog[k].n].context>>

\* C16: every image chunk yielded by the parser is requested with the chunk's
\* precomputed context and, when the run is complete, has a MultimodalAnchor
\* node with modality, image_path and detailed_description in the store
C16_ImageChunksAnchored ==
    \A k \in 1..Len(plog) :
        plog[k].type = "image" =>
            /\ RequestedWithContext(k)
            /\ ppc = "complete" => Anchored(plog[k].counter)

\* the request half alone
C16_RequestUsesContext ==
    \A k \in 1..Len(plog) : plog[k].type = "image" => RequestedWithContext(k)

(***************************************************************************)
(* Context window                                                          *)
(***************************************************************************)

\* the Python indices of the text chunks within index distance ctxDelta of
\* the target, the target itself left out
WindowIndices ==
    { j \in 0..(Len(ctxChunks) - 1) :
        /\ j # ctxIndex
        /\ j >= ctxIndex - ctxDelta
        /\ j <= ctxIndex + ctxDelta
        /\ ctxChunks[j + 1].type = "text" }

\* the elements of a set of numbers, smallest first
RECURSIVE InOrder(_)
InOrder(S) ==
    IF S = {} THEN <<>>
    ELSE LET least == CHOOSE x \in S : \A y \in S : x <= y
         IN  <<least>> \o InOrder(S \ {least})

WindowContents ==
    LET order == InOrder(WindowIndices)
    IN  [p \in 1..Len(order) |-> ctxChunks[order[p] + 1].content]

\* seven chunks with the images at indices 2 and 5, target 2, delta 2
SevenChunkExample ==
    /\ xpc = "done"
    /\ Len(ctxChunks) = 7
    /\ {j \in 0..6 : ctxChunks[j + 1].type = "image"} = {2, 5}
    /\ ctxIndex = 2
    /\ ctxDelta = 2

\* C17: the context is the content of exactly the text chunks in
\* [index - delta, index) and (index, index + delta], clipped to the sequence,
\* in their original order, joined by a blank line; for seven chunks with
\* images at 2 and 5, context(chunks, 2, 2) is chunks 0, 1, 3, 4 in that order
C17_ContextWindow ==
    /\ xpc = "done" => ctxOut = join(BlankLine, WindowContents)
    /\ SevenChunkExample =>
           ctxOut = <<"t", "0", NL, NL, "t", "1", NL, NL, "t", "3", NL, NL, "t", "4">>

C17_Witness ==
    /\ SevenChunkExample
    /\ ctxOut = <<"t", "0", NL, NL, "t", "1", NL, NL, "t", "3", NL, NL, "t", "4">>

(***************************************************************************)
(* Index summaries                                                         *)
(***************************************************************************)

\* a property set with its index_summary set to summary, the other keys kept
WithSummary(properties, summary) ==
    {kv \in properties : kv[1] # "index_summary"} \cup {<<"index_summary", summary>>}

\* C18: add_entity_index(name, summary) sets index_summary on the nodes named
\* name and leaves the node set, the edges and every other property as they
\* were; when no node has that name the store is unchanged and no node is made
C18_IndexFrame ==
    [][(/\ calls' = calls + 1
        /\ last'.op = "add_entity_index")
       => /\ nodes' = nodes
          /\ edges' = edges
          /\ \A x \in nodes :
               props'[x] = IF x.name = last'.args[1]
                           THEN WithSummary(props[x], last'.args[2])
                           ELSE props[x]
          /\ ~entity_exists(Store, last'.args[1]) => props' = props]_vars

\* a summary was attached to an existing node that has other properties, in a
\* store that holds an edge and a node of another name
C18_Witness ==
    /\ last.op = "add_entity_index"
    /\ edges # {}
    /\ \E x \in nodes :
         /\ x.name = last.args[1]
         /\ <<"index_summary", last.args[2]>> \in props[x]
         /\ \E kv \in props[x] : kv[1] # "index_summary"
    /\ \E y \in nodes : y.name # last.args[1] /\ \A kv \in props[y] : kv[1] # "index_summary"

\* a summary was asked for a name no node has
C18_AbsentReached ==
    /\ last.op = "add_entity_index"
    /\ last.fresh
    /\ nodes # {}

(***************************************************************************)
(* Relationship reconciliation                                             *)
(***************************************************************************)

\* the edges after the step that join a node named source to a node named
\* target under the label relation_type
EdgesAfter(source, target, relation_type) ==
    {e \in edges' : e.src.name = source /\ e.tgt.name = target /\ e.rel = relation_type}

\* the step ends with a create_relationship call: Step 2 of load_lightrag_data
\* for one relationship, or the BELONGS_TO link of one image entity
RelationshipStep ==
    /\ Len(ops') > Len(ops)
    /\ ops'[Len(ops')][1] = "create_relationship"

\* the label is the upper-cased relation token of the extraction
LabelUpperCased ==
    rpc = "load" => ops'[Len(ops')][4] = upper(cur.relationships_json[cur.i].relation)

\* C19: when both endpoints exist, reconciling a relationship leaves exactly
\* one edge from source to target labelled by the upper-cased relation, the
\* first time and every later time
C19_ExactlyOneEdge ==
    [][(/\ RelationshipStep
        /\ NamedNodesAfter(ops'[Len(ops')][2]) # {}
        /\ NamedNodesAfter(ops'[Len(ops')][3]) # {})
       => /\ LabelUpperCased
          /\ Cardinality(EdgesAfter(ops'[Len(ops')][2], ops'[Len(ops')][3],
                                    ops'[Len(ops')][4])) = 1]_vars

\* the same, asked only of calls that find one node per endpoint name
C19_ExactlyOneEdgeUniqueNames ==
    [][(/\ RelationshipStep
        /\ Cardinality(NamedNodesAfter(ops'[Len(ops')][2])) = 1
        /\ Cardinality(NamedNodesAfter(ops'[Len(ops')][3])) = 1)
       => /\ LabelUpperCased
          /\ Cardinality(EdgesAfter(ops'[Len(ops')][2], ops'[Len(ops')][3],
                                    ops'[Len(ops')][4])) = 1]_vars

(***************************************************************************)
(* Chunk identifiers of a PDF run                                          *)
(***************************************************************************)

\* the text chunks of the run whose archive file was written
Archived == {k \in 1..Len(plog) : plog[k].type = "text" /\ plog[k].outcome # "error"}

\* C20: within one process_pdf_document run every chunk has an identifier of
\* its own, so no two chunks share an archive file name
\* (knowledge_graph_data_chunk_<id>.json) or an anchor name (Image_<id>)
C20_IdentifiersUnique ==
    /\ \A j \in 1..Len(plog) : \A k \in 1..Len(plog) :
         j # k =>
           /\ plog[j].chunk_id # plog[k].chunk_id
           /\ ArchiveFile(ChunkName(plog[j].chunk_id)) # ArchiveFile(ChunkName(plog[k].chunk_id))
           /\ AnchorName(plog[j].counter) # AnchorName(plog[k].counter)
    /\ Cardinality(archive) = Cardinality(Archived)

\* a run over two text chunks and an image chunk is complete and has written
\* two archive files
C20_Witness ==
    /\ ppc = "complete"
    /\ Len(plog) = 3
    /\ \E k \in 1..Len(plog) : plog[k].type = "image"
    /\ Cardinality(archive) = 2

(***************************************************************************)
(* Order and context of the parser's chunks                                *)
(***************************************************************************)

\* the content of the text chunk most recently yielded before chunk k, the
\* empty string when there is none
LatestTextBefore(k) ==
    LET before == {j \in 1..(k - 1) : parsed[j].type = "text"}
    IN  IF before = {} THEN <<>>
        ELSE parsed[CHOOSE j \in before : \A i \in before : i <= j].content

\* the number of text blocks of the document that are not blank
WordBlocks ==
    Cardinality({pb \in (1..Len(parseDoc)) \X (1..MaxBlocks) :
                    /\ pb[2] <= Len(parseDoc[pb[1]].blocks)
                    /\ parseDoc[pb[1]].blocks[pb[2]] = "words"})

\* C21: in the sequence parse_pdf yields every chunk is a text or an image
\* chunk, pages never decrease, every image chunk comes after all text chunks
\* of its page, and an image's context is the content of the text chunk most
\* recently yielded before it (empty when none precedes it)
C21_ParserOrder ==
    /\ \A k \in 1..Len(parsed) :
         /\ parsed[k].type \in {"text", "image"}
         /\ k > 1 => parsed[k - 1].page <= parsed[k].page
         /\ parsed[k].type = "image" =>
              /\ parsed[k].context = LatestTextBefore(k)
              /\ \A j \in 1..Len(parsed) :
                   (parsed[j].type = "text" /\ parsed[j].page = parsed[k].page) => j < k
    /\ gpc = "closed" =>
         Cardinality({k \in 1..Len(parsed) : parsed[k].type = "text"}) = WordBlocks

\* the parser is done with a two-page document whose second page has an
\* image and no text: the image carries the text of page 1 as its context,
\* and page 1 has an image after its text
C21_Witness ==
    /\ gpc = "closed"
    /\ \E k \in 1..Len(parsed) :
         /\ parsed[k].type = "image"
         /\ parsed[k].page = 2
         /\ parsed[k].context # <<>>
         /\ \A j \in 1..Len(parsed) : parsed[j].page = 2 => parsed[j].type = "image"
    /\ \E k \in 1..Len(parsed) : parsed[k].type = "image" /\ parsed[k].page = 1

(***************************************************************************)
(* Image extraction failures                                               *)
(***************************************************************************)

\* process_pdf_document has ended, by return or by an exception
RunEnded == ppc \in {"complete", "parser_raised", "aborted"}

\* every text chunk of the document has been handed to process_chunk
TextChunksProcessed ==
    \A k \in 1..Len(stream) :
        stream[k].type = "text" => \E i \in 1..Len(plog) : plog[i].n = k

\* C22: a failure to extract the images of a document never aborts the run:
\* the run ends at its completion point and every text chunk of the document
\* has been processed
C22_ImageFailureDegrades ==
    RunEnded => (ppc = "complete" /\ TextChunksProcessed)

\* the text chunks alone: whatever way the run ends, none was left out
C22_NoTextChunkLost ==
    RunEnded => TextChunksProcessed

\* DocumentParser.parse_pdf with convert_from_path raising: the list returned
\* holds the text chunks of every paragraph and nothing else
C22_SegmenterDegrades ==
    (dpc = "done" /\ ~convertOk) =>
        /\ \A k \in 1..Len(chunks) : chunks[k].type = "text"
        /\ Len(chunks) = Cardinality({pq \in (1..Len(doc)) \X (1..MaxParas) :
                                         /\ pq[2] <= Len(doc[pq[1]])
                                         /\ doc[pq[1]][pq[2]] = "para"})

(***************************************************************************)
(* Failing model calls                                                     *)
(***************************************************************************)

\* the calls that ask the model for a structured JSON document
StructuredCalls == {"vlm_entity", "invoke", "extract_entities_from_description"}

\* C23: a failing call to the generative model never propagates out of the
\* extraction adapter: a description call returns the "processing failed"
\* marker and a structured-JSON call returns the empty structure
C23_FailureGivesSentinel ==
    (apc = "done" /\ afails) =>
        /\ aout.kind = "returned"
        /\ acall = "vlm_detail" => aout.value = VlmFailed
        /\ acall \in StructuredCalls => aout.value = EmptyStructure

\* the vision calls alone: a failing call returns the marker
C23_VlmReturnsMarker ==
    (apc = "done" /\ afails /\ acall \in {"vlm_detail", "vlm_entity"}) =>
        aout = Returned(VlmFailed)

\* extract_entities_from_description with a response that does not parse
\* returns the empty structure
C23_UnparseableGivesEmpty ==
    (/\ apc = "done"
     /\ ~afails
     /\ acall = "extract_entities_from_description"
     /\ json_loads_raises(clean_code_fence(acontent))) => aout = Returned(EmptyStructure)

(***************************************************************************)
(* Concurrent reconciliations                                              *)
(***************************************************************************)

BothDone == \A c \in Clients : racePc[c] = "done"

\* an entity name both clients load
SharedNames ==
    { n \in {sanitize_label(e.name) : e \in RawEntities} :
        \A c \in Clients : \E k \in 1..Len(raceList[c]) :
            sanitize_label(raceList[c][k].name) = n }

\* C24: when two reconciliations run concurrently against the same store and
\* both contain an entity of the same name, every interleaving ends with
\* exactly one node of that name
C24_OneNodeAfterRace ==
    BothDone => \A n \in SharedNames : Cardinality(NamedNodes(Store, n)) = 1

\* the same for shared names that both clients load under one type
C24_OneNodeWhenTypesAgree ==
    BothDone =>
        \A n \in SharedNames :
            (\A c \in Clients, d \in Clients :
                \A j \in 1..Len(raceList[c]), k \in 1..Len(raceList[d]) :
                    (/\ sanitize_label(raceList[c][j].name) = n
                     /\ sanitize_label(raceList[d][k].name) = n)
                    => raceList[c][j].type = raceList[d][k].type)
            => Cardinality(NamedNodes(Store, n)) = 1

\* a client was told that no node has the name and created its node after the
\* other client had created one of that name
C24_LostRace ==
    /\ BothDone
    /\ \E n \in SharedNames : Cardinality(NamedNodes(Store, n)) = 2
    /\ \A c \in Clients : Len(raceList[c]) = 1

(***************************************************************************)
(* Entry point                                                             *)
(***************************************************************************)

PathGiven == Len(margv) > 0

SupportedExt(path) ==
    lower(splitext_ext(path)) \in ImageExts \cup {PdfExt}

\* the branches in which a chunk is handed to the graph builder
ProcessesChunks == mroute \in {"pdf", "image", "fallback_text"}

\* C25: main runs the canned text example only when no path argument is
\* given; when a given path does not exist or has an unsupported extension,
\* the process ends with a non-zero status and processes no chunk
C25_EntryPoint ==
    mpc = "done" =>
        /\ mroute = "fallback_text" => ~PathGiven
        /\ (PathGiven /\ (~mexists \/ ~SupportedExt(mfile))) =>
               (mexit # 0 /\ ~ProcessesChunks)

\* what main does do with a given path of an unsupported extension that
\* exists: no chunk is processed
C25_UnsupportedProcessesNothing ==
    (mpc = "done" /\ mexists /\ ~SupportedExt(mfile)) => mroute = "unsupported"


-----------------------------------------------------------------------------
(* Existence-check claims *)

\* Step 1 of load_lightrag_data over a whole entity list
RECURSIVE LoadEntities(_, _)
LoadEntities(st, ents) ==
    IF ents = <<>> THEN st
    ELSE LoadEntities(load_entity(st, Head(ents)), Tail(ents))

\* Step 1 without the entity_exists test: create_entity for every entity
RECURSIVE CreateEntities(_, _)
CreateEntities(st, ents) ==
    IF ents = <<>> THEN st
    ELSE CreateEntities(create_entity(st, sanitize_label(Head(ents).name),
                                      sanitize_label(Head(ents).type), {}),
                        Tail(ents))

\* load_lightrag_data is about to run its first loop over cur.entities_json
LoadBegins ==
    /\ rpc = "load"
    /\ LoadPhases[cur.phase] = "entities"
    /\ cur.i = 1

\* no listed entity shares its name with a node or a listed entity of
\* another type
TypesAgree ==
    \A k \in 1..Len(cur.entities_json) :
        LET n == sanitize_label(cur.entities_json[k].name)
            t == sanitize_label(cur.entities_json[k].type)
        IN  /\ \A x \in NamedNodes(Store, n) : x.label = t
            /\ \A j \in 1..Len(cur.entities_json) :
                 sanitize_label(cur.entities_json[j].name) = n =>
                     sanitize_label(cur.entities_json[j].type) = t

\* C27: from every store state and for every entity list, the entity loop
\* with the entity_exists test and the loop with an unconditional
\* create_entity end in the same set of nodes and labels
C27_CheckIsOnlyOptimisation ==
    LoadBegins =>
        LoadEntities(Store, cur.entities_json).nodes =
            CreateEntities(Store, cur.entities_json).nodes

\* the two loops agree whenever equal names come with equal types
C27_SameWhenTypesAgree ==
    (LoadBegins /\ TypesAgree) =>
        LoadEntities(Store, cur.entities_json) =
            CreateEntities(Store, cur.entities_json)

\* a load begins over a store that holds a node named by the list
C27_LoadOverKnownName ==
    /\ LoadBegins
    /\ TypesAgree
    /\ \E k \in 1..Len(cur.entities_json) :
         entity_exists(Store, sanitize_label(cur.entities_json[k].name))

-----------------------------------------------------------------------------
(* Substitution-order claims *)

\* the keyword arguments in the opposite call order
Reversed(mapping) == [i \in 1..Len(mapping) |-> mapping[Len(mapping) + 1 - i]]

\* the rendered contents are the one-pass substitution of the template text
Simultaneous ==
    LET flat == Flatten(messages)
    IN  \A i \in 1..Len(rendered) :
            rendered[i].content = SubstituteFrom(flat[i].content, 1, kwargs)

\* no supplied value holds a brace
PlainValues ==
    \A j \in 1..Len(kwargs) : \A i \in 1..Len(kwargs[j].v) :
        kwargs[j].v[i] \notin {LB, RB}

\* C28: format substitutes all supplied placeholders at once, so text put in
\* for one placeholder is not rewritten for another and the result is the
\* same for either order of the keyword arguments
C28_SimultaneousSubstitution ==
    fpc = "done" =>
        /\ rendered = expandAll(messages, Reversed(kwargs))
        /\ Simultaneous

\* with values that hold no brace the result is the one-pass substitution
\* and does not depend on the order
C28_OrderFreeForPlainValues ==
    (fpc = "done" /\ PlainValues) =>
        /\ rendered = expandAll(messages, Reversed(kwargs))
        /\ Simultaneous

\* generate_entity_index: question is model output holding the literal
\* placeholder of text, and the rendering rewrote it
C28_InsertedTextRewritten ==
    /\ fpc = "done"
    /\ Len(kwargs) = 2
    /\ kwargs[1] = [k |-> question, v |-> Placeholder(text)]
    /\ kwargs[2].k = text
    /\ rendered # expandAll(messages, Reversed(kwargs))

-----------------------------------------------------------------------------
(* Failed-chunk claims *)

\* the call being made has ended by raising
ChunkRaised == rpc \in {"chunk_raised", "mm_raised"}

\* C29: when process_chunk or create_multimodal_graph raises, the store
\* holds exactly the nodes, edges and properties it held before that chunk
C29_FailedChunkLeavesNoWrites ==
    ChunkRaised => Store = storeBefore

\* process_chunk raising while its outputs are parsed leaves the store as
\* it was: load_lightrag_data has not been called
C29_TextParseFailureLeavesNoWrites ==
    rpc = "chunk_raised" => Store = storeBefore

\* create_multimodal_graph raised over a store that already held nodes
C29_RaisedOverFilledStore ==
    /\ rpc = "mm_raised"
    /\ storeBefore.nodes # {}
    /\ Store # storeBefore

-----------------------------------------------------------------------------
(* Anchor identity claims *)

\* the image an anchor stands for, as its properties record it
ImageOf(ps) == {kv \in ps : kv[1] \in {"image_path", "detailed_description"}}

\* the same two properties as create_multimodal_graph writes them
ImageOfInfo(image_info) ==
    { <<"image_path", image_info.image_path>>,
      <<"detailed_description", image_info.detailed_description>> }

\* the anchors the store held when the current call began
AnchorsBefore == {x \in storeBefore.nodes : x.label = MultimodalAnchor}

\* the BELONGS_TO edges the current call has added
NewLinks == {e \in edges \ storeBefore.edges : e.rel = BELONGS_TO}

\* an anchor of another image keeps its image and gets no link of this call
AnchorsKept ==
    \A x \in AnchorsBefore :
        /\ x \in nodes
        /\ ImageOf(props[x]) = ImageOf(storeBefore.props[x])
        /\ ImageOf(storeBefore.props[x]) # ImageOfInfo(cur.image_info) =>
               \A e \in NewLinks : e.tgt # x

\* C30: distinct image chunks get distinct anchors, also across documents
\* processed against one store: no anchor has its image_path or
\* detailed_description overwritten by another image chunk, and no entity
\* is linked by BELONGS_TO to the anchor of an image it was not extracted from
C30_DistinctAnchors ==
    InMultimodal => AnchorsKept

\* the anchors of other images are left alone when the chunk_id of the call
\* names no node of the store
C30_DistinctWhenIdsDiffer ==
    (InMultimodal /\ NamedNodes(storeBefore, cur.anchor_name) = {}) => AnchorsKept

\* a call with a new chunk_id returned with links, beside an older anchor
C30_SecondAnchor ==
    /\ rpc = "mm_done"
    /\ AnchorsBefore # {}
    /\ NamedNodes(storeBefore, cur.anchor_name) = {}
    /\ NewLinks # {}

====
